---------------------------- MODULE Spec2Model ----------------------------
(***************************************************************************)
(* FFLottery: the NBA-style (Plackett-Luce) draft lottery.                 *)
(*                                                                         *)
(* The model follows src/src/utils/nbaLottery.js: one execution of the     *)
(* async function runNBALottery(teams, onSelection, delay), cut at its     *)
(* await points and at the statements the claims distinguish, with         *)
(* selectWinnerByCombinations and calculateTotalCombinations as operators. *)
(*                                                                         *)
(* A team is a record with a userId and (usually) a combinations field; a  *)
(* team object without the combinations property is a record without that  *)
(* field.  userId 0 is a falsy userId.                                     *)
(***************************************************************************)
EXTENDS Integers, Sequences, FiniteSets

VARIABLES
    pc,             \* position inside runNBALottery
    teams,          \* the caller's teams argument (its elements, when it is an array)
    isArray,        \* Array.isArray(teams)
    onSelection,    \* typeof onSelection === 'function'
    delay,          \* the local delay after its normalisation
    availableTeams, \* the working pool
    selections,     \* the records unshifted so far (display order)
    pickNumber,     \* the loop variable; 0 before the loop is entered
    selected,       \* the value selectWinnerByCombinations returned last
    random,         \* the value of `random` inside the last selectWinnerByCombinations
    calls,          \* the argument lists of the onSelection invocations, in order
    error,          \* the message of the Error thrown, "" when none
    draws,          \* the values of `random` drawn so far in this run, in order
    gen,            \* one call of a combinations.js function: its arguments and result
    app             \* the slot-based App component: its React state, its ref and
                    \* the invocations of its async handlers that are still pending

vars == <<pc, teams, isArray, onSelection, delay, availableTeams, selections,
          pickNumber, selected, random, calls, error, draws, gen, app>>

\* the variables of a runNBALottery execution
lotteryVars == <<pc, teams, isArray, onSelection, delay, availableTeams, selections,
                 pickNumber, selected, random, calls, error, draws>>

---------------------------------------------------------------------------
(* Bounds of the model *)

\* longest well-formed teams array (distinct truthy userIds, weights 0..MaxComb)
MaxTeams == 3
\* largest combinations value of a well-formed team
MaxComb == 2
\* longest teams array with arbitrary (repeated, falsy) userIds and
\* missing or negative combinations
MaxRawTeams == 2

---------------------------------------------------------------------------
(* Program constants and values *)

DEFAULT_DELAY_MS == 1500

NoError == ""
EmptyTeamsError == "Cannot run lottery with empty teams array"
EmptyPoolError == "Cannot select from empty teams array"
ZeroTotalError == "Total combinations cannot be zero"
InvalidTeamError == "Invalid team selected during lottery"

\* `selected` before any draw
NoTeam == [undefined |-> TRUE]

\* JavaScript truthiness of a userId (0 is falsy)
Truthy(u) == u # 0

\* team.combinations || 0
Comb(t) == IF "combinations" \in DOMAIN t THEN t.combinations ELSE 0

\* teams.map(t => t.combinations || 0)
Weights(pool) == [i \in 1..Len(pool) |-> Comb(pool[i])]

---------------------------------------------------------------------------
(* src/src/utils/combinations.js *)

RECURSIVE SumFrom(_, _)
SumFrom(combinations, i) ==
    IF i > Len(combinations) THEN 0
    ELSE combinations[i] + SumFrom(combinations, i + 1)

\* combinations.reduce((sum, count) => sum + (count || 0), 0)
calculateTotalCombinations(combinations) == SumFrom(combinations, 1)

---------------------------------------------------------------------------
(* src/src/utils/nbaLottery.js: selectWinnerByCombinations *)

\* Mutant: a missing or zero weight counted as one combination
\* (t.combinations || 1).
totalCombinations_OrOne(pool) ==
    calculateTotalCombinations(
        [i \in 1..Len(pool) |-> IF Comb(pool[i]) = 0 THEN 1 ELSE Comb(pool[i])])

\* calculateTotalCombinations(teams.map(t => t.combinations || 0))
totalCombinations(pool) == calculateTotalCombinations(Weights(pool))

\* Mutant: the zero-total check of lines 45-47 left out.
SelectError_NoZeroCheck(pool) ==
    IF Len(pool) = 0 THEN EmptyPoolError ELSE NoError

\* The throws of selectWinnerByCombinations (lines 39-47); NoError when it
\* goes on to draw.
SelectError(pool) ==
    IF Len(pool) = 0 THEN EmptyPoolError
    ELSE IF totalCombinations(pool) = 0 THEN ZeroTotalError
    ELSE NoError

\* Mutant: Math.round in place of Math.floor.
RandomValues_Round(total) ==
    IF total > 0 THEN 1..(total + 1) ELSE (total + 1)..1

\* The values Math.floor(Math.random() * total) + 1 can take, Math.random()
\* being any number in [0, 1).
RandomValues(total) ==
    IF total > 0 THEN 1..total ELSE (total + 1)..1

\* Mutant: each team's own combinations compared with random, the running
\* sum never accumulated.
RECURSIVE WalkIndex_NoAccumulate(_, _, _, _)
WalkIndex_NoAccumulate(pool, rnd, i, cumulative) ==
    IF i > Len(pool) THEN 0
    ELSE LET combinations == Comb(pool[i]) IN
         IF combinations <= 0 THEN WalkIndex_NoAccumulate(pool, rnd, i + 1, cumulative)
         ELSE IF rnd <= combinations THEN i
         ELSE WalkIndex_NoAccumulate(pool, rnd, i + 1, cumulative)

\* Mutant: random < cumulative in place of random <= cumulative.
RECURSIVE WalkIndex_StrictLess(_, _, _, _)
WalkIndex_StrictLess(pool, rnd, i, cumulative) ==
    IF i > Len(pool) THEN 0
    ELSE LET combinations == Comb(pool[i]) IN
         IF combinations <= 0 THEN WalkIndex_StrictLess(pool, rnd, i + 1, cumulative)
         ELSE IF rnd < cumulative + combinations THEN i
         ELSE WalkIndex_StrictLess(pool, rnd, i + 1, cumulative + combinations)

\* The for-of loop of lines 54-67 from element i on: the index of the team
\* returned from inside the loop, 0 when the loop ends without returning.
RECURSIVE WalkIndex(_, _, _, _)
WalkIndex(pool, rnd, i, cumulative) ==
    IF i > Len(pool) THEN 0
    ELSE LET combinations == Comb(pool[i]) IN
         IF combinations <= 0 THEN WalkIndex(pool, rnd, i + 1, cumulative)
         ELSE IF rnd <= cumulative + combinations THEN i
         ELSE WalkIndex(pool, rnd, i + 1, cumulative + combinations)

\* Index of the team selectWinnerByCombinations returns for the random value
\* rnd: the loop's team, else the last team (line 70).
SelectIndex(pool, rnd) ==
    LET i == WalkIndex(pool, rnd, 1, 0) IN
    IF i # 0 THEN i ELSE Len(pool)

selectWinnerByCombinations(pool, rnd) == pool[SelectIndex(pool, rnd)]

---------------------------------------------------------------------------
(* src/src/utils/nbaLottery.js: runNBALottery *)

totalTeams == Len(teams)

\* Mutant: the length test of line 97 left out.
InputError_NoLengthCheck(isArr, items) ==
    IF ~isArr THEN EmptyTeamsError ELSE NoError

\* lines 97-99: the throw on a non-array or empty teams argument
InputError(isArr, items) ==
    IF ~isArr \/ Len(items) = 0 THEN EmptyTeamsError ELSE NoError

\* lines 101-103 (and the default parameter of line 96)
NormalizeDelay(d) ==
    IF d.type # "number" \/ d.value < 0 THEN DEFAULT_DELAY_MS ELSE d.value

\* Mutant: the first team of the pool removed, whichever was selected.
FilterOut_DropsHead(pool, userId) ==
    IF pool = <<>> THEN <<>> ELSE Tail(pool)

\* availableTeams.filter(t => t.userId !== selected.userId)
RECURSIVE FilterOut(_, _)
FilterOut(pool, userId) ==
    IF pool = <<>> THEN <<>>
    ELSE IF Head(pool).userId # userId
         THEN <<Head(pool)>> \o FilterOut(Tail(pool), userId)
         ELSE FilterOut(Tail(pool), userId)

\* Mutant: the + 1 of line 132 left out.
displayPosition_OffByOne(n, pick) == n - pick

\* const displayPosition = totalTeams - pickNumber + 1
displayPosition(n, pick) == n - pick + 1

\* { ...selected, pickNumber, position: displayPosition }
Selection(team, pick, position) ==
    [f \in DOMAIN team \cup {"pickNumber", "position"} |->
        IF f = "pickNumber" THEN pick
        ELSE IF f = "position" THEN position
        ELSE team[f]]

---------------------------------------------------------------------------
(* The arguments runNBALottery is called with *)

\* Well-formed arrays: team i has userId i and a weight in 0..MaxComb.
ValidTeamLists ==
    UNION { { [i \in 1..n |-> [userId |-> i, combinations |-> w[i]]] :
                w \in [1..n -> 0..MaxComb] } : n \in 0..MaxTeams }

RawWeights == (0 - 1)..1

RawTeam ==
    [userId : 0..MaxRawTeams, combinations : RawWeights]
        \cup [userId : 0..MaxRawTeams]

RawTeamLists == UNION { [1..n -> RawTeam] : n \in 0..MaxRawTeams }

TeamsArgs ==
    { [isArray |-> TRUE, items |-> t] : t \in ValidTeamLists \cup RawTeamLists }
        \cup { [isArray |-> FALSE, items |-> <<>>] }

DelayArgs ==
    { [type |-> "number", value |-> 0 - 1],
      [type |-> "number", value |-> 0],
      [type |-> "number", value |-> 2000],
      [type |-> "string", value |-> 0] }

---------------------------------------------------------------------------
(* src/src/utils/combinations.js and the tables of src/src/constants       *)

\* largest numTeams argument
MaxNumTeams == 20
\* largest total argument besides TOTAL_COMBINATIONS
MaxTotal == 12

TOTAL_COMBINATIONS == 1000

DEFAULT_COMBINATIONS == <<155, 140, 140, 125, 105, 90, 75, 60, 45, 30, 20, 15>>

NBA_6_TEAMS == <<306, 245, 184, 122, 82, 61>>
NBA_12_TEAMS == <<155, 140, 140, 125, 105, 90, 75, 60, 45, 30, 20, 15>>
NBA_14_TEAMS == <<140, 140, 140, 125, 105, 90, 75, 60, 45, 30, 20, 15, 10, 5>>

\* the keys of LOTTERY.COMBINATION_SETS whose combinations field is an array
FixedSetKeys == {"NBA_6_TEAMS", "NBA_12_TEAMS", "NBA_14_TEAMS"}
\* the keys whose combinations field is null
DynamicSetKeys == {"EQUAL", "LINEAR", "EXPONENTIAL", "CUSTOM"}
\* setKey arguments: the keys of the table and one that is not a key
SetKeys == FixedSetKeys \cup DynamicSetKeys \cup {"UNKNOWN"}

\* set.combinations of a fixed set
SetCombinations(setKey) ==
    CASE setKey = "NBA_6_TEAMS" -> NBA_6_TEAMS
      [] setKey = "NBA_12_TEAMS" -> NBA_12_TEAMS
      [] setKey = "NBA_14_TEAMS" -> NBA_14_TEAMS

\* set.total: 1000 in every set
SetTotal(setKey) == TOTAL_COMBINATIONS

\* Mutant: the Math.max(1, ...) left out.
NextExtended_NoFloorOfOne(last) == (last * 4) \div 5

\* Math.max(1, Math.floor(last * 0.8)) on a non-negative integer: the double
\* 0.8 lies above 4/5 by less than one ulp, so the floor of the product is
\* the floor of 4 * last / 5.
NextExtended(last) ==
    IF (last * 4) \div 5 >= 1 THEN (last * 4) \div 5 ELSE 1

\* the loop `for (i < remaining) extended.push(...)`
RECURSIVE Extend(_, _)
Extend(extended, remaining) ==
    IF remaining <= 0
    THEN extended
    ELSE Extend(Append(extended, NextExtended(extended[Len(extended)])),
                remaining - 1)

\* table.slice(0, numTeams) or the extended copy
PrefixOrExtend(table, numTeams) ==
    IF numTeams <= Len(table)
    THEN SubSeq(table, 1, numTeams)
    ELSE Extend(table, numTeams - Len(table))

getDefaultCombinations(numTeams) == PrefixOrExtend(DEFAULT_COMBINATIONS, numTeams)

\* src/src/utils/teamUtils.js has a getDefaultCombinations of its own, with
\* its own copy of the table (default12, line 124)
default12 == <<155, 140, 140, 125, 105, 90, 75, 60, 45, 30, 20, 15>>

teamUtilsGetDefaultCombinations(numTeams) == PrefixOrExtend(default12, numTeams)

generateEqualCombinations(numTeams, total) ==
    LET base == total \div numTeams
        remainder == total % numTeams
    IN  [i \in 1..numTeams |-> IF i - 1 < remainder THEN base + 1 ELSE base]

\* Mutant: Math.ceil in place of Math.round.
MathRound_Ceil(num, den) == (num + den - 1) \div den

\* Math.round((a / b) * total) with num = a * total and den = b, both
\* non-negative integers: the quotient rounded to the nearest integer, halves
\* up.  For the arguments of this model the doubles (a / b) * total round to
\* the same integers as the exact quotients.
MathRound(num, den) == (2 * num + den) \div (2 * den)

\* Mutant: the difference added to the last entry.
AdjustFirst_Last(combinations, difference) ==
    [i \in 1..Len(combinations) |->
        IF i = Len(combinations) THEN combinations[i] + difference
        ELSE combinations[i]]

\* `if (difference !== 0) combinations[0] += difference`
AdjustFirst(combinations, difference) ==
    [i \in 1..Len(combinations) |->
        IF i = 1 THEN combinations[i] + difference ELSE combinations[i]]

\* Mutant: the rounded shares returned without the adjustment of index 0.
generateLinearCombinations_NoAdjust(numTeams, total) ==
    LET sum == (numTeams * (numTeams + 1)) \div 2
    IN  [i \in 1..numTeams |-> MathRound((numTeams - (i - 1)) * total, sum)]

generateLinearCombinations(numTeams, total) ==
    LET sum == (numTeams * (numTeams + 1)) \div 2
        combinations ==
            [i \in 1..numTeams |-> MathRound((numTeams - (i - 1)) * total, sum)]
        currentTotal == calculateTotalCombinations(combinations)
    IN  AdjustFirst(combinations, total - currentTotal)

\* Math.pow(2, k) for an integer k >= 0
RECURSIVE Pow2(_)
Pow2(k) == IF k <= 0 THEN 1 ELSE 2 * Pow2(k - 1)

generateExponentialCombinations(numTeams, total) ==
    LET weights == [i \in 1..numTeams |-> Pow2(numTeams - (i - 1) - 1)]
        sum == SumFrom(weights, 1)
        combinations ==
            [i \in 1..numTeams |-> MathRound(weights[i] * total, sum)]
        currentTotal == calculateTotalCombinations(combinations)
    IN  AdjustFirst(combinations, total - currentTotal)

getCombinationSet(setKey, numTeams) ==
    IF setKey \notin FixedSetKeys \cup DynamicSetKeys
    THEN getDefaultCombinations(numTeams)
    ELSE IF setKey \in FixedSetKeys
    THEN PrefixOrExtend(SetCombinations(setKey), numTeams)
    ELSE CASE setKey = "EQUAL" ->
                generateEqualCombinations(numTeams, SetTotal(setKey))
           [] setKey = "LINEAR" ->
                generateLinearCombinations(numTeams, SetTotal(setKey))
           [] setKey = "EXPONENTIAL" ->
                generateExponentialCombinations(numTeams, SetTotal(setKey))
           [] OTHER -> getDefaultCombinations(numTeams)

\* `gen` while no function of combinations.js has been called
NoGeneration ==
    [op |-> "none", setKey |-> "", numTeams |-> 1, total |-> 0, result |-> <<>>]

---------------------------------------------------------------------------
(* src/unnamed/part_000, the slot-based App (lines 566-1336), with         *)
(* src/src/utils/teamUtils.js.  A team the API returned is a record with a *)
(* userId (0 when user_id is missing) and its wins; it has no losses, ties *)
(* or pointsFor, which read as 0.  null is 0 for a teamId and "" for the   *)
(* error.  The confetti interval is left out.                              *)

\* most teams in a fetched league
MaxAppTeams == 2
\* most lotteries opened by handleRunLottery in one behaviour
MaxLotteries == 2
\* the teams, the distribution and the slots change only while fewer
\* lotteries than this have been opened
ConfigurableLotteries == 1

\* determinePlayoffAndLotteryTeams(teams, 6)
PLAYOFF_SPOTS == 6

\* slot.teamId of a slot without a team (null)
NoTeamId == 0

\* currentSelection before any is shown (null)
NoSelection == [null |-> TRUE]

LoadTeamsFirstError == "Please load teams first"
NoTeamsAssignedError ==
    "No teams assigned to lottery slots. Please assign teams to slots."
ZeroCombinationsError ==
    "Total combinations cannot be zero. Please set combination values."
LoadFailedError == "Failed to load teams"
InvalidLeagueIdError == "Please enter a league ID"
EmptyLeagueIdError == "League ID must be a non-empty string"

\* calculateWinPercentage: wins / (wins + losses + ties), 0 without games;
\* with losses and ties 0 it is 1 for a team with a win and 0 otherwise.
calculateWinPercentage(team) == IF team.wins > 0 THEN 1 ELSE 0

\* one step of the stable sort of sortTeamsByRecord: team goes behind every
\* team that is not better (pointsFor ties, so equal records keep their order)
RECURSIVE InsertWorstFirst(_, _)
InsertWorstFirst(sorted, team) ==
    IF sorted = <<>>
    THEN <<team>>
    ELSE IF calculateWinPercentage(Head(sorted)) <= calculateWinPercentage(team)
         THEN <<Head(sorted)>> \o InsertWorstFirst(Tail(sorted), team)
         ELSE <<team>> \o sorted

RECURSIVE sortTeamsByRecord(_)
sortTeamsByRecord(ts) ==
    IF ts = <<>>
    THEN <<>>
    ELSE InsertWorstFirst(sortTeamsByRecord(SubSeq(ts, 1, Len(ts) - 1)), ts[Len(ts)])

RECURSIVE InsertBestFirst(_, _)
InsertBestFirst(sorted, team) ==
    IF sorted = <<>>
    THEN <<team>>
    ELSE IF calculateWinPercentage(Head(sorted)) >= calculateWinPercentage(team)
         THEN <<Head(sorted)>> \o InsertBestFirst(Tail(sorted), team)
         ELSE <<team>> \o sorted

RECURSIVE sortTeamsByRecordBestFirst(_)
sortTeamsByRecordBestFirst(ts) ==
    IF ts = <<>>
    THEN <<>>
    ELSE InsertBestFirst(sortTeamsByRecordBestFirst(SubSeq(ts, 1, Len(ts) - 1)),
                         ts[Len(ts)])

\* determinePlayoffAndLotteryTeams(teams, 6).lotteryTeams
LotteryTeams(ts) ==
    LET sortedBestFirst == sortTeamsByRecordBestFirst(ts)
    IN  IF Len(ts) <= PLAYOFF_SPOTS
        THEN <<>>
        ELSE sortTeamsByRecord(SubSeq(sortedBestFirst, PLAYOFF_SPOTS + 1, Len(ts)))

\* set?.lotteryOnly || false
LotteryOnly(setKey) == setKey = "NBA_6_TEAMS"

\* teamsForSlots of handleLoadTeams and handleCombinationSetChange
TeamsForSlots(setKey, ts) ==
    IF LotteryOnly(setKey) THEN LotteryTeams(ts) ELSE sortTeamsByRecord(ts)

\* userId || null
OrNull(userId) == IF Truthy(userId) THEN userId ELSE NoTeamId

\* combinations || 1
OrOne(combinations) == IF combinations # 0 THEN combinations ELSE 1

\* comboArray.map((combinations, index) => ({ slotId, combinations, teamId }))
CreateSlots(setKey, teamsForSlots) ==
    LET comboArray == getCombinationSet(setKey, Len(teamsForSlots))
    IN  [index \in 1..Len(comboArray) |->
            [slotId |-> index - 1,
             combinations |-> OrOne(comboArray[index]),
             teamId |-> IF index <= Len(teamsForSlots)
                        THEN OrNull(teamsForSlots[index].userId)
                        ELSE NoTeamId]]

\* teamsForSlots.find(t => !usedTeamIds.has(t.userId))?.userId || null
RECURSIVE FirstUnused(_, _)
FirstUnused(teamsForSlots, usedTeamIds) ==
    IF teamsForSlots = <<>>
    THEN NoTeamId
    ELSE IF Head(teamsForSlots).userId \notin usedTeamIds
         THEN OrNull(Head(teamsForSlots).userId)
         ELSE FirstUnused(Tail(teamsForSlots), usedTeamIds)

\* the CUSTOM branch of handleCombinationSetChange: the slots and their
\* combinations stay, a slot without an available team gets the first team
\* that no earlier slot holds
PreserveSlots(lotterySlots, teamsForSlots) ==
    LET availableTeamIds == { teamsForSlots[i].userId : i \in 1..Len(teamsForSlots) }
    IN  [index \in 1..Len(lotterySlots) |->
            LET currentTeamId == lotterySlots[index].teamId
                usedTeamIds ==
                    { lotterySlots[j].teamId : j \in 1..(index - 1) } \ {NoTeamId}
            IN  IF currentTeamId = NoTeamId \/ currentTeamId \notin availableTeamIds
                THEN [lotterySlots[index] EXCEPT
                        !.teamId = FirstUnused(teamsForSlots, usedTeamIds)]
                ELSE lotterySlots[index]]

\* what getLeagueTeams resolves with: 1..MaxAppTeams users, the i-th with
\* user_id i or without one, each with or without a win
FetchedTeamLists ==
    UNION { [1..n -> [userId : 0..MaxAppTeams, wins : 0..1]] : n \in 1..MaxAppTeams }

\* the lists of the model: the first user has a user_id and a win, the
\* others have their user_id or none, and a win or none
FetchedTeams ==
    { ts \in FetchedTeamLists :
        /\ ts[1].wins = 1
        /\ \A i \in 1..Len(ts) : ts[i].userId \in {0, i}
        /\ Len(ts) > 1 => ts[1].userId = 1 }

\* most teams in a league with more teams than playoff spots
MaxLeagueTeams == 7

\* what getLeagueTeams resolves with for a league that has lottery teams
\* under a lottery-only set: more than PLAYOFF_SPOTS users, the i-th with
\* user_id i; the first alone has a win, or all but those beyond the
\* playoff spots
FetchedLeagues ==
    { [i \in 1..n |-> [userId |-> i, wins |-> IF i <= k THEN 1 ELSE 0]] :
        n \in (PLAYOFF_SPOTS + 1)..MaxLeagueTeams, k \in {1, PLAYOFF_SPOTS} }

\* the state of the component after its first render
AppMounted ==
    [\* which of the two versions of App in part_000 is mounted
     version |-> "slots",
     combinationSet |-> "NBA_6_TEAMS",
     \* the combinations map of the first version: userId -> combinations
     combinations |-> <<>>,
     \* combinationSet as the handleRunLottery of the first version reads it
     runLotterySet |-> "NBA_6_TEAMS",
     loading |-> FALSE,
     teams |-> <<>>,
     lotterySlots |-> <<>>,
     error |-> NoError,
     isRunning |-> FALSE,
     showAnimation |-> FALSE,
     animationStarted |-> FALSE,
     selections |-> <<>>,
     currentSelection |-> NoSelection,
     showResults |-> FALSE,
     teamsForLottery |-> <<>>,
     fullLotteryResults |-> <<>>,
     skipAnimationRef |-> FALSE,
     \* pending invocations of handleStartAnimation and handleSkipAnimation
     procs |-> <<>>,
     \* history: the number of lotteries handleRunLottery has opened and
     \* whether the last one is still open (until Reset or the next load);
     \* for the open lottery: the runNBALottery calls made, what the call of
     \* handleStartAnimation returned, the picks its reveal has shown, and
     \* whether handleSkipAnimation has shown its results
     lottery |-> 0,
     open |-> FALSE,
     runCalls |-> 0,
     startResults |-> <<>>,
     revealed |-> {},
     skipShown |-> FALSE]

\* the state of the first version of the component after its first render
LegacyAppMounted == [AppMounted EXCEPT !.version = "legacy"]

---------------------------------------------------------------------------
(* The state machine *)

Init ==
    /\ pc = "idle"
    /\ teams = <<>>
    /\ isArray = TRUE
    /\ onSelection = FALSE
    /\ delay = 0
    /\ availableTeams = <<>>
    /\ selections = <<>>
    /\ pickNumber = 0
    /\ selected = NoTeam
    /\ random = 0
    /\ calls = <<>>
    /\ error = NoError
    /\ draws = <<>>
    /\ gen = NoGeneration
    /\ app = AppMounted

\* runNBALottery is called: lines 96-113, up to the first await of the loop
\* (or to the return of line 152 when the loop has no iteration).
Call ==
    /\ pc = "idle"
    /\ \E t \in TeamsArgs, cb \in BOOLEAN, d \in DelayArgs :
        /\ teams' = t.items
        /\ isArray' = t.isArray
        /\ onSelection' = cb
        /\ IF InputError(t.isArray, t.items) # NoError
           THEN /\ pc' = "error"
                /\ error' = InputError(t.isArray, t.items)
                /\ UNCHANGED <<delay, availableTeams, pickNumber>>
           ELSE /\ delay' = NormalizeDelay(d)
                /\ availableTeams' = t.items
                /\ pickNumber' = 1
                /\ pc' = IF 1 <= Len(t.items) THEN "await" ELSE "done"
                /\ error' = NoError
    /\ UNCHANGED <<selections, selected, random, calls, draws>>
    /\ UNCHANGED <<gen, app>>

\* line 115: the pacing timer of this pick fires and the loop body resumes.
TimerFires ==
    /\ pc = "await"
    /\ pc' = "select"
    /\ UNCHANGED <<teams, isArray, onSelection, delay, availableTeams, selections,
                   pickNumber, selected, random, calls, error, draws>>
    /\ UNCHANGED <<gen, app>>

\* lines 119-123: selectWinnerByCombinations(availableTeams) and the check of
\* what it returned.
Select ==
    /\ pc = "select"
    /\ IF SelectError(availableTeams) # NoError
       THEN /\ pc' = "error"
            /\ error' = SelectError(availableTeams)
            /\ UNCHANGED <<selected, random, draws>>
       ELSE \E rnd \in RandomValues(totalCombinations(availableTeams)) :
            /\ random' = rnd
            /\ draws' = Append(draws, rnd)
            /\ selected' = selectWinnerByCombinations(availableTeams, rnd)
            /\ IF ~Truthy(selected'.userId)
               THEN pc' = "error" /\ error' = InvalidTeamError
               ELSE pc' = "record" /\ error' = NoError
    /\ UNCHANGED <<teams, isArray, onSelection, delay, availableTeams, selections,
                   pickNumber, calls>>
    /\ UNCHANGED <<gen, app>>

\* Mutant: selections.push in place of selections.unshift.
Record_Push ==
    /\ pc = "record"
    /\ availableTeams' = FilterOut(availableTeams, selected.userId)
    /\ selections' =
         Append(selections,
                Selection(selected, pickNumber, displayPosition(totalTeams, pickNumber)))
    /\ pc' = "notify"
    /\ UNCHANGED <<teams, isArray, onSelection, delay, pickNumber, selected,
                   random, calls, error, draws>>
    /\ UNCHANGED <<gen, app>>

\* Mutant: pickNumber and position assigned to the selected object itself,
\* which is the caller's team object, before it is recorded.
Record_WritesIntoTeam ==
    /\ pc = "record"
    /\ availableTeams' = FilterOut(availableTeams, selected.userId)
    /\ selections' =
         <<Selection(selected, pickNumber, displayPosition(totalTeams, pickNumber))>>
            \o selections
    /\ teams' = [i \in 1..Len(teams) |->
                    IF teams[i] = selected
                    THEN Selection(selected, pickNumber,
                                   displayPosition(totalTeams, pickNumber))
                    ELSE teams[i]]
    /\ pc' = "notify"
    /\ UNCHANGED <<isArray, onSelection, delay, pickNumber, selected,
                   random, calls, error, draws>>
    /\ UNCHANGED <<gen, app>>

\* lines 127-142: the selected team leaves the pool and its record is
\* unshifted onto selections.
Record ==
    /\ pc = "record"
    /\ availableTeams' = FilterOut(availableTeams, selected.userId)
    /\ selections' =
         <<Selection(selected, pickNumber, displayPosition(totalTeams, pickNumber))>>
            \o selections
    /\ pc' = "notify"
    /\ UNCHANGED <<teams, isArray, onSelection, delay, pickNumber, selected,
                   random, calls, error, draws>>
    /\ UNCHANGED <<gen, app>>

\* Mutant: the observer skipped when the delay is 0
\* (if (delay && typeof onSelection === 'function')).
Notify_SkipsCallbackWithoutDelay ==
    /\ pc = "notify"
    /\ calls' = IF onSelection /\ delay > 0
                THEN Append(calls, <<selected,
                                     displayPosition(totalTeams, pickNumber),
                                     pickNumber>>)
                ELSE calls
    /\ pickNumber' = pickNumber + 1
    /\ pc' = IF pickNumber + 1 <= totalTeams THEN "await" ELSE "done"
    /\ UNCHANGED <<teams, isArray, onSelection, delay, availableTeams, selections,
                   selected, random, error, draws>>
    /\ UNCHANGED <<gen, app>>

\* lines 146-149 and the loop's pickNumber++ / test: the observer is invoked
\* (when it is a function), then the next pick awaits its timer or the
\* function returns selections (line 152).
Notify ==
    /\ pc = "notify"
    /\ calls' = IF onSelection
                THEN Append(calls, <<selected,
                                     displayPosition(totalTeams, pickNumber),
                                     pickNumber>>)
                ELSE calls
    /\ pickNumber' = pickNumber + 1
    /\ pc' = IF pickNumber + 1 <= totalTeams THEN "await" ELSE "done"
    /\ UNCHANGED <<teams, isArray, onSelection, delay, availableTeams, selections,
                   selected, random, error, draws>>
    /\ UNCHANGED <<gen, app>>

Next == Call \/ TimerFires \/ Select \/ Record \/ Notify

Spec == Init /\ [][Next]_vars

\* The run with its scheduling: a timer that was set fires, and the code
\* between two awaits runs once the loop body has resumed.
LiveSpec ==
    /\ Init
    /\ [][Next]_vars
    /\ WF_vars(TimerFires)
    /\ WF_vars(Select)
    /\ WF_vars(Record)
    /\ WF_vars(Notify)

---------------------------------------------------------------------------
(* Calls of the combinations.js functions: the arguments are fixed by the  *)
(* initial state, each action is one call and stores what it returns.      *)

GenInit ==
    /\ \E n \in 1..MaxNumTeams, t \in 0..MaxTotal \cup {TOTAL_COMBINATIONS} :
          gen = [NoGeneration EXCEPT !.numTeams = n, !.total = t]
    /\ pc = "idle"
    /\ teams = <<>>
    /\ isArray = TRUE
    /\ onSelection = FALSE
    /\ delay = 0
    /\ availableTeams = <<>>
    /\ selections = <<>>
    /\ pickNumber = 0
    /\ selected = NoTeam
    /\ random = 0
    /\ calls = <<>>
    /\ error = NoError
    /\ draws = <<>>
    /\ app = AppMounted

GenerateEqual ==
    /\ gen.op = "none"
    /\ gen' = [gen EXCEPT !.op = "generateEqualCombinations",
                          !.result = generateEqualCombinations(gen.numTeams, gen.total)]
    /\ UNCHANGED <<lotteryVars, app>>

GenerateLinear ==
    /\ gen.op = "none"
    /\ gen' = [gen EXCEPT !.op = "generateLinearCombinations",
                          !.result = generateLinearCombinations(gen.numTeams, gen.total)]
    /\ UNCHANGED <<lotteryVars, app>>

GenerateExponential ==
    /\ gen.op = "none"
    /\ gen' = [gen EXCEPT !.op = "generateExponentialCombinations",
                          !.result = generateExponentialCombinations(gen.numTeams,
                                                                     gen.total)]
    /\ UNCHANGED <<lotteryVars, app>>

GetDefaultCombinations ==
    /\ gen.op = "none"
    /\ gen' = [gen EXCEPT !.op = "getDefaultCombinations",
                          !.result = getDefaultCombinations(gen.numTeams)]
    /\ UNCHANGED <<lotteryVars, app>>

\* getDefaultCombinations of teamUtils.js, as initializeDefaultCombinations
\* calls it
TeamUtilsGetDefaultCombinations ==
    /\ gen.op = "none"
    /\ gen' = [gen EXCEPT !.op = "teamUtils.getDefaultCombinations",
                          !.result = teamUtilsGetDefaultCombinations(gen.numTeams)]
    /\ UNCHANGED <<lotteryVars, app>>

GetCombinationSet ==
    /\ gen.op = "none"
    /\ \E setKey \in SetKeys :
          gen' = [gen EXCEPT !.op = "getCombinationSet",
                             !.setKey = setKey,
                             !.result = getCombinationSet(setKey, gen.numTeams)]
    /\ UNCHANGED <<lotteryVars, app>>

\* a league of numTeams users, the i-th with user_id i and no games played
LeagueOf(numTeams) == [i \in 1..numTeams |-> [userId |-> i, wins |-> 0]]

\* lotterySlots.map(slot => slot.combinations) (allCombinationsArray)
allCombinationsArray(lotterySlots) ==
    [index \in 1..Len(lotterySlots) |-> lotterySlots[index].combinations]

\* The slots of the slot-based App are created for a league of gen.numTeams
\* teams under a distribution of the select, as handleLoadTeams (lines
\* 668-690) and handleCombinationSetChange (lines 742-757) create them; the
\* result is the combinations of the slots.
CreateLotterySlots ==
    /\ gen.op = "none"
    /\ \E setKey \in (FixedSetKeys \cup DynamicSetKeys) \ {"CUSTOM"} :
          gen' = [gen EXCEPT
                    !.op = "createSlots",
                    !.setKey = setKey,
                    !.result =
                        allCombinationsArray(
                            CreateSlots(setKey,
                                        TeamsForSlots(setKey,
                                                      LeagueOf(gen.numTeams))))]
    /\ UNCHANGED <<lotteryVars, app>>

GenNext ==
    \/ GenerateEqual
    \/ GenerateLinear
    \/ GenerateExponential
    \/ GetDefaultCombinations
    \/ TeamUtilsGetDefaultCombinations
    \/ GetCombinationSet
    \/ CreateLotterySlots

GenSpec == GenInit /\ [][GenNext]_vars

---------------------------------------------------------------------------
(* The slot-based App: its handlers and the continuations of its async     *)
(* handlers.  A handler runs to its first await in one step; a pending     *)
(* invocation resumes when the timer (or import) it awaits completes and   *)
(* runs to its next await.  Handlers read the state of the latest render.  *)

\* validateLeagueId(leagueId): the error, "" when valid
validateLeagueId(leagueId) ==
    IF leagueId = "" THEN EmptyLeagueIdError
    ELSE IF leagueId = " " THEN InvalidLeagueIdError
    ELSE NoError

\* the text of the league id field when Load Teams is pressed
LeagueIds == {"", "1"}

\* the entries of the distribution menu the model selects
MenuSetKeys == {"NBA_6_TEAMS", "LINEAR", "CUSTOM"}

RemoveAt(seq, k) == SubSeq(seq, 1, k - 1) \o SubSeq(seq, k + 1, Len(seq))

\* results.find(r => r.pickNumber === 1)
Winner(results) ==
    IF \E j \in 1..Len(results) : results[j].pickNumber = 1
    THEN results[CHOOSE j \in 1..Len(results) : results[j].pickNumber = 1]
    ELSE NoSelection

\* the teams of the slots with their slot's combinations:
\* lotterySlots.map(slot => team ? { ...team, combinations } : null).filter(Boolean)
RECURSIVE TeamsWithCombinations(_, _)
TeamsWithCombinations(ts, lotterySlots) ==
    IF lotterySlots = <<>>
    THEN <<>>
    ELSE LET slot == Head(lotterySlots)
             found == { i \in 1..Len(ts) : ts[i].userId = slot.teamId }
             rest == TeamsWithCombinations(ts, Tail(lotterySlots))
         IN  IF slot.teamId = NoTeamId \/ found = {}
             THEN rest
             \* new Map(...) keeps the last team of a userId
             ELSE <<[f \in DOMAIN ts[1] \cup {"combinations"} |->
                        IF f = "combinations"
                        THEN slot.combinations
                        ELSE ts[CHOOSE i \in found : \A j \in found : j <= i][f]]>>
                  \o rest

\* one value of Math.floor(Math.random() * total) + 1 for each team the walk
\* can stop at: the cumulative sum at that team
AppRandomValues(pool) ==
    { calculateTotalCombinations(Weights(SubSeq(pool, 1, i))) :
        i \in { j \in 1..Len(pool) : Comb(pool[j]) > 0 } }

\* runNBALottery(teamsForLottery, null, 0) up to the await of its first pick;
\* teamsForLottery is a non-empty array at both call sites
NewInvocation(kind, a) ==
    [kind |-> kind,
     lottery |-> a.lottery,
     phase |-> "run",
     pool |-> a.teamsForLottery,
     sels |-> <<>>,
     pick |-> 1,
     n |-> Len(a.teamsForLottery),
     results |-> <<>>,
     i |-> 0]

\* the error selectWinnerByCombinations or the check of line 121 raises for
\* the pick of invocation p with random value rnd, "" when the pick succeeds
PickError(p, rnd) ==
    IF SelectError(p.pool) # NoError
    THEN SelectError(p.pool)
    ELSE IF ~Truthy(selectWinnerByCombinations(p.pool, rnd).userId)
         THEN InvalidTeamError
         ELSE NoError

\* lines 119-148 of runNBALottery for the pick of invocation p
AfterPick(p, rnd) ==
    LET team == selectWinnerByCombinations(p.pool, rnd)
    IN  [p EXCEPT !.pool = FilterOut(p.pool, team.userId),
                  !.sels = <<Selection(team, p.pick, displayPosition(p.n, p.pick))>>
                              \o p.sels,
                  !.pick = p.pick + 1]

\* lottery is the open lottery
OfOpenLottery(a, lottery) == a.open /\ lottery = a.lottery

\* the history of a lottery is dropped when it is closed
Closed(a) ==
    [a EXCEPT !.open = FALSE, !.runCalls = 0, !.startResults = <<>>,
              !.revealed = {}, !.skipShown = FALSE]

\* lines 972-992 of handleStartAnimation: after the loop, then finally
AfterLoop(a, k) ==
    LET results == a.procs[k].results
        shown == IF ~a.skipAnimationRef
                 THEN [a EXCEPT !.selections = results,
                                !.currentSelection =
                                    IF Winner(results) # NoSelection
                                    THEN Winner(results) ELSE a.currentSelection,
                                !.showResults = TRUE]
                 ELSE a
    IN  [shown EXCEPT !.isRunning = FALSE, !.procs = RemoveAt(a.procs, k)]

\* lines 917-928: after the delay before pick i, the picks up to i are shown
\* and the loop waits for the avatar animation
PostDelay(a, k, i) ==
    IF a.skipAnimationRef
    THEN AfterLoop(a, k)
    ELSE [a EXCEPT !.selections = SubSeq(a.procs[k].results, 1, i + 1),
                   !.procs[k].phase = "animDelay",
                   !.procs[k].i = i,
                   !.revealed =
                       IF OfOpenLottery(a, a.procs[k].lottery)
                       THEN a.revealed \cup
                            { [userId |-> a.procs[k].results[j].userId,
                               pickNumber |-> a.procs[k].results[j].pickNumber] :
                              j \in 1..(i + 1) }
                       ELSE a.revealed]

\* lines 900-915: the top of the loop for index i (0-based)
LoopTop(a, k, i) ==
    LET results == a.procs[k].results
    IN  IF i >= Len(results) \/ a.skipAnimationRef
        THEN AfterLoop(a, k)
        ELSE IF i = Len(results) - 1 \/ i > 0
             THEN [a EXCEPT !.procs[k].phase = "preDelay", !.procs[k].i = i]
             ELSE PostDelay(a, k, i)

\* lines 930-939: after the avatar animation of pick i
PostAnimation(a, k, i) ==
    LET results == a.procs[k].results
    IN  IF a.skipAnimationRef
        THEN AfterLoop(a, k)
        ELSE LET shown == [a EXCEPT !.currentSelection = results[i + 1]]
             IN  IF i = Len(results) - 1 /\ results[i + 1].pickNumber = 1
                 THEN [shown EXCEPT !.procs[k].phase = "import"]
                 ELSE LoopTop(shown, k, i + 1)

\* lines 887-892: runNBALottery has returned to handleStartAnimation
StartAfterRun(a, k, results) ==
    LoopTop([a EXCEPT !.fullLotteryResults = results,
                      !.selections = <<>>,
                      !.showResults = FALSE,
                      !.procs[k].results = results,
                      !.startResults =
                          IF OfOpenLottery(a, a.procs[k].lottery)
                          THEN results ELSE a.startResults],
            k, 0)

\* lines 1061-1073 of handleSkipAnimation: all results are shown at once
ShowFinal(a, finalResults, ofLottery) ==
    IF Len(finalResults) > 0
    THEN [a EXCEPT !.selections = finalResults,
                   !.currentSelection =
                       IF Winner(finalResults) # NoSelection
                       THEN Winner(finalResults) ELSE a.currentSelection,
                   !.showResults = TRUE,
                   !.skipShown = OfOpenLottery(a, ofLottery) \/ a.skipShown]
    ELSE a

\* line 1053 and on: runNBALottery has returned to handleSkipAnimation
SkipAfterRun(a, k, results) ==
    ShowFinal([a EXCEPT !.fullLotteryResults = results,
                        !.procs = RemoveAt(a.procs, k)],
              results, a.procs[k].lottery)

\* the catch blocks: of handleStartAnimation (then its finally) and of
\* handleSkipAnimation
AfterThrow(a, k, message) ==
    IF a.procs[k].kind = "start"
    THEN [a EXCEPT !.error = message, !.isRunning = FALSE,
                   !.procs = RemoveAt(a.procs, k)]
    ELSE [a EXCEPT !.error = message, !.procs = RemoveAt(a.procs, k)]

otherVars == <<lotteryVars, gen>>

AppInit ==
    /\ app \in {AppMounted, LegacyAppMounted}
    /\ gen = NoGeneration
    /\ pc = "idle"
    /\ teams = <<>>
    /\ isArray = TRUE
    /\ onSelection = FALSE
    /\ delay = 0
    /\ availableTeams = <<>>
    /\ selections = <<>>
    /\ pickNumber = 0
    /\ selected = NoTeam
    /\ random = 0
    /\ calls = <<>>
    /\ error = NoError
    /\ draws = <<>>

\* handleLoadTeams up to its first await (lines 615-633)
LoadTeams ==
    /\ app.version = "slots"
    /\ ~app.loading /\ ~app.isRunning /\ ~app.showAnimation
    /\ app.lottery < ConfigurableLotteries
    /\ \E leagueId \in LeagueIds :
        app' = IF validateLeagueId(leagueId) # NoError
               THEN [app EXCEPT !.error = validateLeagueId(leagueId)]
               ELSE Closed([app EXCEPT !.loading = TRUE,
                                       !.error = NoError,
                                       !.teams = <<>>,
                                       !.lotterySlots = <<>>,
                                       !.isRunning = FALSE,
                                       !.selections = <<>>,
                                       !.currentSelection = NoSelection,
                                       !.showResults = FALSE])
    /\ UNCHANGED otherVars

\* handleLoadTeams after its fetches (lines 635-696): the teams and their
\* slots are stored, or the fetch of the teams failed
LoadTeamsSettled ==
    /\ app.version = "slots"
    /\ app.loading
    /\ \/ \E fetchedTeams \in FetchedTeams :
            app' = [app EXCEPT
                            !.teams = fetchedTeams,
                            !.lotterySlots =
                                CreateSlots(app.combinationSet,
                                            TeamsForSlots(app.combinationSet,
                                                          fetchedTeams)),
                            !.loading = FALSE]
       \/ app' = [app EXCEPT !.error = LoadFailedError, !.loading = FALSE]
    /\ UNCHANGED otherVars

\* handleCombinationSetChange (lines 699-758); the select is rendered with
\* teams loaded and enabled while no lottery runs
CombinationSetChange ==
    /\ app.version = "slots"
    /\ Len(app.teams) > 0 /\ ~app.isRunning /\ ~app.showAnimation
    /\ app.lottery < ConfigurableLotteries
    /\ \E setKey \in MenuSetKeys :
        LET teamsForSlots == TeamsForSlots(setKey, app.teams)
        IN  app' = [app EXCEPT
                            !.combinationSet = setKey,
                            !.lotterySlots =
                                IF setKey = "CUSTOM" /\ Len(app.lotterySlots) > 0
                                THEN PreserveSlots(app.lotterySlots, teamsForSlots)
                                ELSE CreateSlots(setKey, teamsForSlots)]
    /\ UNCHANGED otherVars

\* handleCombinationsChange(slotId, value) (lines 760-767)
handleCombinationsChange(lotterySlots, slotId, value) ==
    [index \in 1..Len(lotterySlots) |->
        IF lotterySlots[index].slotId = slotId
        THEN [lotterySlots[index] EXCEPT
                !.combinations = IF value > 0 THEN value ELSE 0]
        ELSE lotterySlots[index]]

\* the lotterySlots after the combinations field of the card of the team of
\* slot index is edited to numValue: TeamCard (lines 42-47) calls
\* onCombinationsChange(team.userId, Math.max(0, numValue)), and the
\* one-parameter arrow function of line 1236 hands its first argument, the
\* userId, to handleCombinationsChange as value
onCombinationsChange(lotterySlots, index, numValue) ==
    handleCombinationsChange(lotterySlots,
                             lotterySlots[index].slotId,
                             lotterySlots[index].teamId)

\* An edit of the combinations field of the card of a slot's team in Custom
\* mode
EditCombinations ==
    /\ app.version = "slots"
    /\ app.combinationSet = "CUSTOM" /\ ~app.isRunning /\ ~app.showAnimation
    /\ app.lottery < ConfigurableLotteries
    /\ \E index \in 1..Len(app.lotterySlots), numValue \in 0..MaxComb :
        /\ app.lotterySlots[index].teamId # NoTeamId
        /\ \E t \in 1..Len(app.teams) :
              app.teams[t].userId = app.lotterySlots[index].teamId
        /\ app' = [app EXCEPT
                           !.lotterySlots =
                               onCombinationsChange(app.lotterySlots,
                                                    index, numValue)]
    /\ UNCHANGED otherVars

\* lotterySlots.findIndex(slot => slot.teamId === teamId): the first such
\* index, 0 where findIndex returns -1
findIndex(lotterySlots, teamId) ==
    IF \E index \in 1..Len(lotterySlots) : lotterySlots[index].teamId = teamId
    THEN CHOOSE index \in 1..Len(lotterySlots) :
            /\ lotterySlots[index].teamId = teamId
            /\ \A j \in 1..(index - 1) : lotterySlots[j].teamId # teamId
    ELSE 0

\* Mutant: the dragged team put into the target slot without leaving its own.
handleDragEnd_CopiesDragged(lotterySlots, draggedTeamId, targetTeamId) ==
    LET targetSlotIndex == findIndex(lotterySlots, targetTeamId)
        draggedSlotIndex == findIndex(lotterySlots, draggedTeamId)
    IN  IF targetSlotIndex # 0
        THEN [lotterySlots EXCEPT ![targetSlotIndex].teamId = draggedTeamId]
        ELSE IF draggedSlotIndex # 0
        THEN [lotterySlots EXCEPT ![draggedSlotIndex].teamId = targetTeamId]
        ELSE lotterySlots

\* the updater of handleDragEnd (lines 785-814): two slot teams swap their
\* slots; a team outside the slots takes the slot of the slot team it is
\* dropped on, or hands its place outside to the slot team dropped on it
handleDragEnd(lotterySlots, draggedTeamId, targetTeamId) ==
    LET targetSlotIndex == findIndex(lotterySlots, targetTeamId)
        draggedSlotIndex == findIndex(lotterySlots, draggedTeamId)
    IN  IF draggedSlotIndex # 0 /\ targetSlotIndex # 0
        THEN [lotterySlots EXCEPT
                ![draggedSlotIndex].teamId = lotterySlots[targetSlotIndex].teamId,
                ![targetSlotIndex].teamId = lotterySlots[draggedSlotIndex].teamId]
        ELSE IF draggedSlotIndex = 0 /\ targetSlotIndex # 0
        THEN [lotterySlots EXCEPT ![targetSlotIndex].teamId = draggedTeamId]
        ELSE IF draggedSlotIndex # 0 /\ targetSlotIndex = 0
        THEN [lotterySlots EXCEPT ![draggedSlotIndex].teamId = targetTeamId]
        ELSE lotterySlots

\* new Set(lotterySlots.map(s => s.teamId).filter(Boolean))
slotTeamIds(lotterySlots) ==
    { lotterySlots[index].teamId : index \in 1..Len(lotterySlots) } \ {NoTeamId}

\* the playoffTeams memo (lines 1110-1118): the teams that are in no slot
RECURSIVE playoffTeams(_, _)
playoffTeams(ts, lotterySlots) ==
    IF ts = <<>>
    THEN <<>>
    ELSE IF Head(ts).userId \notin slotTeamIds(lotterySlots)
         THEN <<Head(ts)>> \o playoffTeams(Tail(ts), lotterySlots)
         ELSE playoffTeams(Tail(ts), lotterySlots)

\* the ids of the cards inside the DndContext (lines 1213-1261): a card for
\* the team of every slot that has one, and, with a lottery-only set or in
\* Custom mode, one for every playoff team; each card is draggable and
\* droppable under its team's userId, which it needs to have
DragIds(a) ==
    { a.lotterySlots[index].teamId : index \in
        { i \in 1..Len(a.lotterySlots) :
            \E t \in 1..Len(a.teams) :
                /\ Truthy(a.lotterySlots[i].teamId)
                /\ a.teams[t].userId = a.lotterySlots[i].teamId } }
    \cup
    (IF LotteryOnly(a.combinationSet) \/ a.combinationSet = "CUSTOM"
     THEN { team.userId : team \in
              { playoffTeams(a.teams, a.lotterySlots)[i] :
                  i \in 1..Len(playoffTeams(a.teams, a.lotterySlots)) } }
          \ {NoTeamId}
     ELSE {})

\* handleDragEnd (lines 772-819): a card dropped on another card
DragEnd ==
    /\ app.version = "slots"
    /\ Len(app.teams) > 0 /\ ~app.isRunning /\ ~app.showAnimation
    /\ app.lottery < ConfigurableLotteries
    /\ \E draggedTeamId \in DragIds(app), targetTeamId \in DragIds(app) :
        /\ draggedTeamId # targetTeamId
        /\ Len(app.lotterySlots) > 0
        /\ app' = [app EXCEPT
                           !.lotterySlots =
                               handleDragEnd(app.lotterySlots,
                                             draggedTeamId, targetTeamId)]
    /\ UNCHANGED otherVars


\* handleRunLottery (lines 822-867), the handler of the Run Lottery button,
\* which is rendered with teams loaded, the dialog closed and no selections
RunLottery ==
    /\ app.version = "slots"
    /\ Len(app.teams) > 0 /\ ~app.showAnimation /\ Len(app.selections) = 0
    /\ LET teamsWithCombinations ==
               TeamsWithCombinations(app.teams, app.lotterySlots)
           total == calculateTotalCombinations(Weights(teamsWithCombinations))
       IN  IF Len(app.teams) = 0 \/ Len(app.lotterySlots) = 0
           THEN app' = [app EXCEPT !.error = LoadTeamsFirstError]
           ELSE IF Len(teamsWithCombinations) = 0
           THEN app' = [app EXCEPT !.error = NoTeamsAssignedError]
           ELSE IF total = 0
           THEN app' = [app EXCEPT !.error = ZeroCombinationsError]
           ELSE /\ app.lottery < MaxLotteries
                /\ app' = [app EXCEPT
                                   !.error = NoError,
                                   !.teamsForLottery = teamsWithCombinations,
                                   !.selections = <<>>,
                                   !.currentSelection = NoSelection,
                                   !.showResults = FALSE,
                                   !.animationStarted = FALSE,
                                   !.showAnimation = TRUE,
                                   !.fullLotteryResults = <<>>,
                                   !.lottery = app.lottery + 1,
                                   !.open = TRUE,
                                   !.runCalls = 0,
                                   !.startResults = <<>>,
                                   !.revealed = {},
                                   !.skipShown = FALSE]
    /\ UNCHANGED otherVars

\* handleStartAnimation up to the first await inside runNBALottery (lines
\* 870-884), the handler of the Start button of the open dialog
StartAnimation ==
    /\ app.version = "slots"
    /\ app.showAnimation /\ ~app.animationStarted
    /\ app' = (IF Len(app.teamsForLottery) = 0
                    THEN app
                    ELSE [app EXCEPT
                            !.animationStarted = TRUE,
                            !.isRunning = TRUE,
                            !.skipAnimationRef = FALSE,
                            !.procs = Append(app.procs, NewInvocation("start", app)),
                            !.runCalls = app.runCalls + 1])
    /\ UNCHANGED otherVars

\* The zero-delay timer of a pick of a pending runNBALottery call fires: the
\* pick is made; after the last pick, or when the pick throws, the handler
\* that awaits the call goes on to its next await or to its end.  Timers of
\* equal delay fire in the order they were set: the calls in their picks
\* stand in app.procs in the order of their pending timers, the first one
\* fires, and a call that sets the timer of its next pick goes to the end.
RunTimerFires ==
    /\ app.version = "slots"
    /\ \E k \in 1..Len(app.procs) :
        /\ app.procs[k].phase = "run"
        /\ \A j \in 1..(k - 1) : app.procs[j].phase # "run"
        /\ LET p == app.procs[k]
           IN  IF SelectError(p.pool) # NoError
               THEN app' = AfterThrow(app, k, SelectError(p.pool))
               ELSE \E rnd \in AppRandomValues(p.pool) :
                      IF PickError(p, rnd) # NoError
                      THEN app' = AfterThrow(app, k, PickError(p, rnd))
                      ELSE IF AfterPick(p, rnd).pick <= p.n
                      THEN app' = [app EXCEPT
                                     !.procs = Append(RemoveAt(app.procs, k),
                                                      AfterPick(p, rnd))]
                      ELSE IF p.kind = "start"
                      THEN app' = StartAfterRun(app, k, AfterPick(p, rnd).sels)
                      ELSE app' = SkipAfterRun(app, k, AfterPick(p, rnd).sels)
    /\ UNCHANGED otherVars

\* the timer of lines 912-917 (the delay before a pick) fires
RevealDelayFires ==
    /\ app.version = "slots"
    /\ \E k \in 1..Len(app.procs) :
        /\ app.procs[k].phase = "preDelay"
        /\ app' = PostDelay(app, k, app.procs[k].i)
    /\ UNCHANGED otherVars

\* the timer of line 929 (the avatar animation of a pick) fires
AvatarDelayFires ==
    /\ app.version = "slots"
    /\ \E k \in 1..Len(app.procs) :
        /\ app.procs[k].phase = "animDelay"
        /\ app' = PostAnimation(app, k, app.procs[k].i)
    /\ UNCHANGED otherVars

\* the import of canvas-confetti (line 943) resolves; the loop ends
ConfettiLoaded ==
    /\ app.version = "slots"
    /\ \E k \in 1..Len(app.procs) :
        /\ app.procs[k].phase = "import"
        /\ app' = LoopTop(app, k, app.procs[k].i + 1)
    /\ UNCHANGED otherVars

\* handleSkipAnimation (lines 1029-1074), the handler of the Skip button the
\* open dialog shows once the animation has started
SkipAnimation ==
    /\ app.version = "slots"
    /\ app.showAnimation /\ app.animationStarted
    /\ LET closed == [app EXCEPT !.skipAnimationRef = TRUE,
                                 !.isRunning = FALSE,
                                 !.showAnimation = FALSE,
                                 !.animationStarted = FALSE]
       IN  app' = (IF Len(app.fullLotteryResults) > 0
                        THEN ShowFinal(closed, app.fullLotteryResults, app.lottery)
                        ELSE IF Len(app.teamsForLottery) > 0
                        THEN [closed EXCEPT
                                !.procs = Append(app.procs,
                                                 NewInvocation("skip", app)),
                                !.runCalls = app.runCalls + 1]
                        ELSE closed)
    /\ UNCHANGED otherVars

\* handleReset (lines 1001-1010), the handler of the Reset button of the
\* results, which are rendered under the dialog
Reset ==
    /\ app.version = "slots"
    /\ app.showResults /\ Len(app.selections) > 0 /\ ~app.showAnimation
    /\ app' = Closed([app EXCEPT !.isRunning = FALSE,
                                 !.showAnimation = FALSE,
                                 !.animationStarted = FALSE,
                                 !.selections = <<>>,
                                 !.currentSelection = NoSelection,
                                 !.showResults = FALSE,
                                 !.error = NoError,
                                 !.teamsForLottery = <<>>])
    /\ UNCHANGED otherVars

---------------------------------------------------------------------------
(* The first version of App in src/unnamed/part_000 (lines 34-560): the    *)
(* combinations are a map from userId to combinations, handleRunLottery    *)
(* awaits runNBALottery with a delay of 1500 ms and an observer, and there *)
(* is no dialog.                                                           *)

\* combinations[userId] || 0
CombinationsOf(combinations, userId) ==
    IF userId \in DOMAIN combinations THEN combinations[userId] ELSE 0

\* comboArray[index] || 1
ComboOrOne(comboArray, index) ==
    IF index <= Len(comboArray) THEN OrOne(comboArray[index]) ELSE 1

\* ts.forEach((team, index) => { map[team.userId] = comboArray[index] || 1 })
AssignCombinations(ts, comboArray) ==
    LET userIds == { ts[i].userId : i \in 1..Len(ts) }
    IN  IF userIds = {}
        THEN <<>>
        ELSE [u \in userIds |->
                ComboOrOne(comboArray,
                           CHOOSE i \in 1..Len(ts) :
                               /\ ts[i].userId = u
                               /\ \A j \in 1..Len(ts) : ts[j].userId = u => j <= i)]

\* the combinations handleLoadTeams and handleCombinationSetChange assign
\* for a set that is not CUSTOM
InitialCombinations(setKey, ts) ==
    IF LotteryOnly(setKey)
    THEN AssignCombinations(LotteryTeams(ts),
                            getCombinationSet(setKey, Len(LotteryTeams(ts))))
    ELSE AssignCombinations(sortTeamsByRecord(ts),
                            getCombinationSet(setKey, Len(ts)))

\* calculateTotalCombinations(Object.values(combinations))
RECURSIVE SumValues(_, _)
SumValues(combinations, keys) ==
    IF keys = {}
    THEN 0
    ELSE LET u == CHOOSE k \in keys : TRUE
         IN  combinations[u] + SumValues(combinations, keys \ {u})

\* ts.filter(team => (combinations[team.userId] || 0) > 0)
RECURSIVE WithPositiveCombinations(_, _)
WithPositiveCombinations(ts, combinations) ==
    IF ts = <<>>
    THEN <<>>
    ELSE IF CombinationsOf(combinations, Head(ts).userId) > 0
         THEN <<Head(ts)>> \o WithPositiveCombinations(Tail(ts), combinations)
         ELSE WithPositiveCombinations(Tail(ts), combinations)

\* the teams a lottery is run for (lines 209-221), which are also the teams
\* whose cards are displayed (lines 302-317)
LegacyTeamsForLottery(setKey, ts, combinations) ==
    IF LotteryOnly(setKey) THEN LotteryTeams(ts)
    ELSE IF setKey = "CUSTOM"
         THEN WithPositiveCombinations(sortTeamsByRecord(ts), combinations)
         ELSE sortTeamsByRecord(ts)

\* teamsForLottery.map(team => ({ ...team, combinations: combinations[team.userId] || 0 }))
LegacyTeamsWithCombinations(teamsForLottery, combinations) ==
    [i \in 1..Len(teamsForLottery) |->
        [f \in DOMAIN teamsForLottery[i] \cup {"combinations"} |->
            IF f = "combinations"
            THEN CombinationsOf(combinations, teamsForLottery[i].userId)
            ELSE teamsForLottery[i][f]]]

\* handleLoadTeams up to its first await (lines 50-66); the button is
\* disabled while loading or running
LegacyLoadTeams ==
    /\ app.version = "legacy"
    /\ ~app.loading /\ ~app.isRunning
    /\ \E leagueId \in LeagueIds :
        app' = IF validateLeagueId(leagueId) # NoError
               THEN [app EXCEPT !.error = validateLeagueId(leagueId)]
               ELSE [app EXCEPT !.loading = TRUE,
                                !.error = NoError,
                                !.teams = <<>>,
                                !.combinations = <<>>,
                                !.runLotterySet = app.combinationSet,
                                !.isRunning = FALSE,
                                !.selections = <<>>,
                                !.currentSelection = NoSelection,
                                !.showResults = FALSE]
    /\ UNCHANGED otherVars

\* handleLoadTeams after its fetches (lines 68-133)
LegacyLoadTeamsSettled ==
    /\ app.version = "legacy"
    /\ app.loading
    /\ \/ \E fetchedTeams \in FetchedTeams :
            app' = [app EXCEPT
                      !.teams = fetchedTeams,
                      !.combinations =
                          InitialCombinations(app.combinationSet, fetchedTeams),
                      !.runLotterySet = app.combinationSet,
                      !.loading = FALSE]
       \/ app' = [app EXCEPT !.error = LoadFailedError, !.loading = FALSE]
    /\ UNCHANGED otherVars

\* handleCombinationSetChange (lines 136-186); the select is rendered with
\* teams loaded and disabled while running.  handleRunLottery is built anew
\* only when teams or combinations change (line 263), so it keeps reading
\* the former set when CUSTOM keeps the combinations.
LegacyCombinationSetChange ==
    /\ app.version = "legacy"
    /\ Len(app.teams) > 0 /\ ~app.isRunning
    /\ \E setKey \in MenuSetKeys :
        LET currentTotal == SumValues(app.combinations, DOMAIN app.combinations)
        IN  app' =
              IF setKey = "CUSTOM"
              THEN IF currentTotal = 0 \/ DOMAIN app.combinations = {}
                   THEN [app EXCEPT
                           !.combinationSet = setKey,
                           !.combinations =
                               AssignCombinations(
                                   sortTeamsByRecord(app.teams),
                                   getCombinationSet("NBA_12_TEAMS",
                                                     Len(app.teams))),
                           !.runLotterySet = setKey]
                   ELSE [app EXCEPT !.combinationSet = setKey]
              ELSE [app EXCEPT
                      !.combinationSet = setKey,
                      !.combinations = InitialCombinations(setKey, app.teams),
                      !.runLotterySet = setKey]
    /\ UNCHANGED otherVars

\* An edit of the combinations field of a displayed team's card in Custom
\* mode: TeamCard (lines 42-47) calls handleCombinationsChange(team.userId,
\* Math.max(0, numValue)) (lines 188-193)
LegacyEditCombinations ==
    /\ app.version = "legacy"
    /\ app.combinationSet = "CUSTOM" /\ ~app.isRunning
    /\ LET teamsToDisplay ==
               LegacyTeamsForLottery(app.combinationSet, app.teams,
                                     app.combinations)
       IN  \E index \in 1..Len(teamsToDisplay), numValue \in 0..MaxComb :
              LET userId == teamsToDisplay[index].userId
              IN  app' = [app EXCEPT
                            !.combinations =
                                [u \in DOMAIN app.combinations \cup {userId} |->
                                    IF u = userId THEN numValue
                                    ELSE app.combinations[u]],
                            !.runLotterySet = app.combinationSet]
    /\ UNCHANGED otherVars

\* Mutant: the check of the total (lines 227-233) left out.
LegacyRunLottery_NoZeroCheck ==
    /\ app.version = "legacy"
    /\ Len(app.teams) > 0 /\ ~app.isRunning /\ Len(app.selections) = 0
    /\ LET teamsWithCombinations ==
               LegacyTeamsWithCombinations(
                   LegacyTeamsForLottery(app.runLotterySet, app.teams,
                                         app.combinations),
                   app.combinations)
           total == calculateTotalCombinations(Weights(teamsWithCombinations))
       IN  IF Len(app.teams) = 0
           THEN app' = [app EXCEPT !.error = LoadTeamsFirstError]
           ELSE app' = [app EXCEPT
                          !.error = NoError,
                          !.isRunning = TRUE,
                          !.selections = <<>>,
                          !.currentSelection = NoSelection,
                          !.showResults = FALSE,
                          !.procs =
                              Append(app.procs,
                                     [kind |-> "legacy",
                                      lottery |-> app.lottery,
                                      phase |-> "run",
                                      pool |-> teamsWithCombinations,
                                      sels |-> <<>>,
                                      pick |-> 1,
                                      n |-> Len(teamsWithCombinations),
                                      results |-> <<>>,
                                      i |-> 0])]
    /\ UNCHANGED otherVars

\* handleRunLottery up to the first await inside runNBALottery (lines
\* 197-253); the button is rendered with teams loaded, while not running
\* and without selections
LegacyRunLottery ==
    /\ app.version = "legacy"
    /\ Len(app.teams) > 0 /\ ~app.isRunning /\ Len(app.selections) = 0
    /\ LET teamsWithCombinations ==
               LegacyTeamsWithCombinations(
                   LegacyTeamsForLottery(app.runLotterySet, app.teams,
                                         app.combinations),
                   app.combinations)
           total == calculateTotalCombinations(Weights(teamsWithCombinations))
       IN  IF Len(app.teams) = 0
           THEN app' = [app EXCEPT !.error = LoadTeamsFirstError]
           ELSE IF total = 0
           THEN app' = [app EXCEPT !.error = ZeroCombinationsError]
           ELSE app' = [app EXCEPT
                          !.error = NoError,
                          !.isRunning = TRUE,
                          !.selections = <<>>,
                          !.currentSelection = NoSelection,
                          !.showResults = FALSE,
                          !.procs =
                              Append(app.procs,
                                     [kind |-> "legacy",
                                      lottery |-> app.lottery,
                                      phase |-> "run",
                                      pool |-> teamsWithCombinations,
                                      sels |-> <<>>,
                                      pick |-> 1,
                                      n |-> Len(teamsWithCombinations),
                                      results |-> <<>>,
                                      i |-> 0])]
    /\ UNCHANGED otherVars

\* lines 257-262: the catch and finally blocks of handleRunLottery
LegacyAfterThrow(a, k, message) ==
    [a EXCEPT !.error = message,
              !.isRunning = FALSE,
              !.currentSelection = NoSelection,
              !.procs = RemoveAt(a.procs, k)]

\* The 1500 ms timer of a pick of the pending runNBALottery call fires: the
\* pick is made and the observer shows it (lines 244-251); after the last
\* pick handleRunLottery shows the results (lines 255-262).
LegacyRunTimerFires ==
    /\ app.version = "legacy"
    /\ \E k \in 1..Len(app.procs) :
        LET p == app.procs[k]
        IN  IF SelectError(p.pool) # NoError
            THEN app' = LegacyAfterThrow(app, k, SelectError(p.pool))
            ELSE \E rnd \in AppRandomValues(p.pool) :
                   IF PickError(p, rnd) # NoError
                   THEN app' = LegacyAfterThrow(app, k, PickError(p, rnd))
                   ELSE IF AfterPick(p, rnd).pick <= p.n
                   THEN app' = [app EXCEPT
                                  !.currentSelection = Head(AfterPick(p, rnd).sels),
                                  !.procs[k] = AfterPick(p, rnd)]
                   ELSE app' = [app EXCEPT
                                  !.selections = AfterPick(p, rnd).sels,
                                  !.showResults = TRUE,
                                  !.isRunning = FALSE,
                                  !.currentSelection = NoSelection,
                                  !.procs = RemoveAt(app.procs, k)]
    /\ UNCHANGED otherVars

\* handleReset (lines 266-272), the handler of the Reset button of the
\* results, which are rendered with showResults and selections
LegacyReset ==
    /\ app.version = "legacy"
    /\ app.showResults /\ Len(app.selections) > 0
    /\ app' = [app EXCEPT !.isRunning = FALSE,
                          !.selections = <<>>,
                          !.currentSelection = NoSelection,
                          !.showResults = FALSE,
                          !.error = NoError]
    /\ UNCHANGED otherVars

AppNext ==
    \/ LoadTeams
    \/ LoadTeamsSettled
    \/ CombinationSetChange
    \/ EditCombinations
    \/ DragEnd
    \/ RunLottery
    \/ StartAnimation
    \/ RunTimerFires
    \/ RevealDelayFires
    \/ AvatarDelayFires
    \/ ConfettiLoaded
    \/ SkipAnimation
    \/ Reset
    \/ LegacyLoadTeams
    \/ LegacyLoadTeamsSettled
    \/ LegacyCombinationSetChange
    \/ LegacyEditCombinations
    \/ LegacyRunLottery
    \/ LegacyRunTimerFires
    \/ LegacyReset

AppSpec == AppInit /\ [][AppNext]_vars

---------------------------------------------------------------------------
(* The teams and the slots of a league with lottery and playoff teams: the *)
(* slot-based App from its first render, with the handlers that write      *)
(* teams, combinationSet and lotterySlots while no lottery has been run.   *)

SlotInit ==
    /\ AppInit
    /\ app = AppMounted

\* handleLoadTeams after its fetches (lines 635-696), for a league with
\* more teams than playoff spots
LoadLeagueSettled ==
    /\ app.version = "slots"
    /\ app.loading
    /\ \/ \E fetchedTeams \in FetchedLeagues :
            app' = [app EXCEPT
                            !.teams = fetchedTeams,
                            !.lotterySlots =
                                CreateSlots(app.combinationSet,
                                            TeamsForSlots(app.combinationSet,
                                                          fetchedTeams)),
                            !.loading = FALSE]
       \/ app' = [app EXCEPT !.error = LoadFailedError, !.loading = FALSE]
    /\ UNCHANGED otherVars

SlotNext ==
    \/ LoadTeams
    \/ LoadLeagueSettled
    \/ CombinationSetChange
    \/ DragEnd

SlotSpec == SlotInit /\ [][SlotNext]_vars

---------------------------------------------------------------------------
(* src/unnamed/part_004: the official 14-team table and the mock teams     *)
(* verifyLotteryProbabilities builds from it                               *)

NBA_14_TEAM_COMBINATIONS ==
    <<140, 140, 140, 125, 105, 90, 75, 60, 45, 30, 20, 15, 10, 5>>

\* combinations.map((combo, index) => ({ userId: `team-${index + 1}`, ... }))
MockTeams(combinations) ==
    [i \in 1..Len(combinations) |-> [userId |-> i, combinations |-> combinations[i]]]

---------------------------------------------------------------------------
(* Vocabulary of the properties *)

Ended == pc \in {"done", "error"}

\* The inputs the specification calls valid for the sampler: an array of
\* teams with pairwise distinct, non-empty userIds and non-negative integer
\* combinations.
WellFormed(ts) ==
    /\ \A i \in 1..Len(ts) :
        /\ Truthy(ts[i].userId)
        /\ "combinations" \in DOMAIN ts[i]
        /\ ts[i].combinations >= 0
    /\ \A i, j \in 1..Len(ts) : ts[i].userId = ts[j].userId => i = j

\* Sum of the weights of the first i teams of a pool.
RECURSIVE PrefixSum(_, _)
PrefixSum(pool, i) ==
    IF i = 0 THEN 0 ELSE PrefixSum(pool, i - 1) + Comb(pool[i])

NonNegative(pool) == \A i \in 1..Len(pool) : Comb(pool[i]) >= 0

HasPositive(pool) == \E i \in 1..Len(pool) : Comb(pool[i]) > 0

\* selectWinnerByCombinations has just returned `selected` for `random`, and
\* availableTeams is still the pool it was given.
JustSelected ==
    \/ pc = "record"
    \/ pc = "error" /\ error = InvalidTeamError

\* Positions of selections holding the team with this userId.
RecordsOf(userId) == { i \in 1..Len(selections) : selections[i].userId = userId }

---------------------------------------------------------------------------
(* C1. Coverage: for N >= 1 teams with pairwise distinct userIds and       *)
(* non-negative integer combinations summing to more than 0, the run       *)
(* completes (it does not end with an error) and returns exactly N records *)
(* in which every input userId appears exactly once.                       *)
(* The code ends such a run with ZeroTotalError as soon as only            *)
(* zero-weight teams are left in the pool.                                 *)
C1_Coverage ==
    ( /\ Ended
      /\ isArray
      /\ Len(teams) >= 1
      /\ WellFormed(teams)
      /\ PrefixSum(teams, Len(teams)) > 0 )
    => /\ pc = "done"
       /\ Len(selections) = Len(teams)
       /\ \A i \in 1..Len(teams) : Cardinality(RecordsOf(teams[i].userId)) = 1

---------------------------------------------------------------------------
(* C2. Rank bijection: in every array runNBALottery returns for N input    *)
(* teams the pickNumber values are exactly 1..N, each used once, every     *)
(* record's position is N - pickNumber + 1, and so the positions are       *)
(* exactly 1..N, each used once.                                           *)
C2_RankBijection ==
    pc = "done" =>
        LET N == Len(teams) IN
        /\ Len(selections) = N
        /\ \A k \in 1..N :
            /\ Cardinality({ i \in 1..N : selections[i].pickNumber = k }) = 1
            /\ Cardinality({ i \in 1..N : selections[i].position = k }) = 1
        /\ \A i \in 1..N :
            selections[i].position = N - selections[i].pickNumber + 1

C2_Witness ==
    /\ pc = "done"
    /\ Len(teams) = 3
    /\ Len(selections) = 3
    /\ selections[1].userId = 2

---------------------------------------------------------------------------
(* C3. Proportional draw: for every pool of non-negative integer weights   *)
(* with total > 0 given to selectWinnerByCombinations, the random value r  *)
(* lies in 1..total and the team returned is the first team in pool order  *)
(* whose running sum of weights is >= r; for every team i exactly          *)
(* combinations_i of the total values of r return team i (140 of 1000 for  *)
(* a weight-140 team of the 14-entry table); this holds for the reduced    *)
(* pool of every later pick as well.                                       *)
FirstReaching(pool, r) ==
    CHOOSE i \in 0..Len(pool) :
        \/ /\ i > 0
           /\ PrefixSum(pool, i) >= r
           /\ \A j \in 1..(i - 1) : PrefixSum(pool, j) < r
        \/ /\ i = 0
           /\ \A j \in 1..Len(pool) : PrefixSum(pool, j) < r

ShareOfDraws(pool) ==
    LET total == PrefixSum(pool, Len(pool)) IN
    \A i \in 1..Len(pool) :
        Cardinality({ r \in 1..total : SelectIndex(pool, r) = i }) = Comb(pool[i])

C3_ProportionalDraw ==
    /\ (JustSelected /\ NonNegative(availableTeams)) =>
          /\ random \in 1..PrefixSum(availableTeams, Len(availableTeams))
          /\ FirstReaching(availableTeams, random) > 0
          /\ selected = availableTeams[FirstReaching(availableTeams, random)]
    /\ ( /\ pc = "select"
         /\ NonNegative(availableTeams)
         /\ HasPositive(availableTeams) ) => ShareOfDraws(availableTeams)
    /\ pc = "idle" => ShareOfDraws(MockTeams(NBA_14_TEAM_COMBINATIONS))

C3_Witness ==
    /\ pc = "record"
    /\ pickNumber = 2
    /\ Len(availableTeams) = 2
    /\ NonNegative(availableTeams)
    /\ Comb(availableTeams[1]) = 1
    /\ Comb(availableTeams[2]) = 2
    /\ random = 2
    /\ selected = availableTeams[2]

---------------------------------------------------------------------------
(* C4. Zero-weight exclusion: selectWinnerByCombinations never returns a   *)
(* team whose combinations is 0 or missing while the pool holds a team     *)
(* with positive combinations, whatever the random value and the pool      *)
(* order, also when the zero-weight team is the last element of the pool.  *)
C4_ZeroWeightExclusion ==
    (JustSelected /\ HasPositive(availableTeams)) => Comb(selected) # 0

C4_Witness ==
    /\ pc = "record"
    /\ Len(availableTeams) >= 2
    /\ Comb(availableTeams[Len(availableTeams)]) = 0
    /\ HasPositive(availableTeams)
    /\ random = PrefixSum(availableTeams, Len(availableTeams))
    /\ Comb(selected) > 0

---------------------------------------------------------------------------
(* C5. A zero-weight team is ranked last: given N >= 2 well-formed teams   *)
(* of which exactly one has combinations 0, the run finishes without error *)
(* and the zero-weight team receives pickNumber N.                         *)
(* The code never gives that team a pickNumber below N, but it throws      *)
(* ZeroTotalError at draw N instead of ranking the team.                   *)
ZeroTeams(ts) == { i \in 1..Len(ts) : Comb(ts[i]) = 0 }

C5_ZeroWeightRankedLast ==
    ( /\ Ended
      /\ isArray
      /\ Len(teams) >= 2
      /\ WellFormed(teams)
      /\ Cardinality(ZeroTeams(teams)) = 1 )
    => /\ pc = "done"
       /\ \A z \in ZeroTeams(teams) :
            \E i \in 1..Len(selections) :
                /\ selections[i].userId = teams[z].userId
                /\ selections[i].pickNumber = Len(teams)

---------------------------------------------------------------------------
---------------------------------------------------------------------------
(* C7. Empty input is rejected up front: called with an empty list or a    *)
(* non-array, runNBALottery fails with EmptyTeamsError before any pacing   *)
(* delay, draw or callback (the loop is never entered); and a              *)
(* selectWinnerByCombinations call on an empty pool throws EmptyPoolError, *)
(* it never returns a team nor throws another error.                       *)
C7_EmptyInputRejected ==
    /\ (pc # "idle" /\ (~isArray \/ Len(teams) = 0)) =>
          /\ pc = "error"
          /\ error = EmptyTeamsError
          /\ pickNumber = 0
          /\ selected = NoTeam
          /\ random = 0
          /\ selections = <<>>
          /\ calls = <<>>
    /\ error = EmptyTeamsError => (~isArray \/ Len(teams) = 0)
    /\ pc \in {"record", "error"} /\ error \in {NoError, ZeroTotalError, InvalidTeamError}
          => Len(availableTeams) > 0

C7_Witness ==
    /\ pc = "error"
    /\ error = EmptyTeamsError
    /\ isArray
    /\ teams = <<>>
    /\ onSelection

---------------------------------------------------------------------------
(* C8. All-zero input is rejected: given two or more teams whose           *)
(* combinations are all 0, the run can only end with ZeroTotalError, at    *)
(* its first draw, with no team selected, no record and no callback.       *)
C8_AllZeroRejected ==
    ( /\ pc # "idle"
      /\ Len(teams) >= 2
      /\ \A i \in 1..Len(teams) : Comb(teams[i]) = 0 )
    => /\ pc \in {"await", "select", "error"}
       /\ pc = "error" => error = ZeroTotalError
       /\ pickNumber = 1
       /\ selected = NoTeam
       /\ random = 0
       /\ selections = <<>>
       /\ calls = <<>>

C8_Witness ==
    /\ pc = "error"
    /\ error = ZeroTotalError
    /\ Len(teams) = 3
    /\ WellFormed(teams)
    /\ onSelection
    /\ \A i \in 1..Len(teams) : Comb(teams[i]) = 0

---------------------------------------------------------------------------
(* C9. Atomic failure: in a run of runNBALottery on well-formed teams that *)
(* ends with an error the observer has been invoked zero times and no      *)
(* selection has been recorded.                                            *)
(* The code announces and records the picks of the positive-weight teams   *)
(* and then throws ZeroTotalError at the first draw over zero-weight teams.*)
C9_AtomicFailure ==
    (pc = "error" /\ isArray /\ WellFormed(teams) /\ onSelection) =>
        /\ calls = <<>>
        /\ selections = <<>>

---------------------------------------------------------------------------
(* C10. Callback ordering: with an observer supplied and well-formed teams *)
(* of total > 0, the observer is invoked exactly N times, once per draw,   *)
(* for pick numbers 1, 2, ..., N in increasing order, each time after that *)
(* pick's team has left the pool and been recorded and before the next     *)
(* draw starts.                                                            *)
(* The order holds of the code (C10_OrderOfCallbacks); the count does not: *)
(* the run of C1 that throws at a zero-weight pool has invoked the         *)
(* observer fewer than N times.                                            *)
C10_OrderOfCallbacks ==
    /\ \A k \in 1..Len(calls) :
        /\ calls[k][3] = k
        /\ \E i \in 1..Len(selections) :
            /\ selections[i].pickNumber = k
            /\ selections[i].userId = calls[k][1].userId
    /\ onSelection /\ pc \in {"await", "select", "record", "notify"}
          => Len(calls) = pickNumber - 1
    /\ pc = "notify" =>
          /\ \A i \in 1..Len(availableTeams) :
                availableTeams[i].userId # selected.userId
          /\ selections[1].userId = selected.userId
          /\ selections[1].pickNumber = pickNumber

C10_CallbackOrdering ==
    ( /\ onSelection
      /\ isArray
      /\ Len(teams) >= 1
      /\ WellFormed(teams)
      /\ PrefixSum(teams, Len(teams)) > 0 )
    => /\ C10_OrderOfCallbacks
       /\ Ended => Len(calls) = Len(teams)

---------------------------------------------------------------------------
(* C11. Callback signature: the observer is invoked as                     *)
(* (selectedEntity, pickNumber): on the k-th draw of a run its first       *)
(* argument is the team drawn and its second argument is the pick number k.*)
(* The code passes (selected, displayPosition, pickNumber): the second     *)
(* argument is N - k + 1, the pick number comes third.                     *)
C11_CallbackSignature ==
    \A k \in 1..Len(calls) :
        /\ calls[k][2] = k
        /\ \E i \in 1..Len(selections) :
            /\ selections[i].pickNumber = k
            /\ selections[i].userId = calls[k][1].userId

---------------------------------------------------------------------------
(* C15. Pacing independence: the pool, the records and the observer calls  *)
(* of a run are, between any two picks and at its return, what the teams,  *)
(* the observer and the random values drawn so far determine, whatever the *)
(* delay argument (0, positive, negative or not a number); the delay in    *)
(* use is always a non-negative number.                                    *)
RECURSIVE Unpaced(_, _, _)
Unpaced(ts, cb, ds) ==
    IF ds = <<>>
    THEN [pool |-> ts, selections |-> <<>>, calls |-> <<>>]
    ELSE LET k == Len(ds)
             prev == Unpaced(ts, cb, SubSeq(ds, 1, k - 1))
             team == selectWinnerByCombinations(prev.pool, ds[k])
         IN  [pool |-> FilterOut(prev.pool, team.userId),
              selections |->
                  <<Selection(team, k, Len(ts) - k + 1)>> \o prev.selections,
              calls |-> IF cb
                        THEN Append(prev.calls, <<team, Len(ts) - k + 1, k>>)
                        ELSE prev.calls]

C15_PacingIndependence ==
    /\ pc \in {"await", "select", "done"} =>
          /\ Len(draws) = pickNumber - 1
          /\ availableTeams = Unpaced(teams, onSelection, draws).pool
          /\ selections = Unpaced(teams, onSelection, draws).selections
          /\ calls = Unpaced(teams, onSelection, draws).calls
    /\ pc \notin {"idle", "error"} => delay >= 0

C15_Witness ==
    /\ pc = "done"
    /\ delay = 0
    /\ onSelection
    /\ Len(teams) = 3
    /\ Len(calls) = 3
    /\ draws = <<2, 1, 1>>

---------------------------------------------------------------------------
(* C19. Return order: the array runNBALottery returns is in display order, *)
(* worst pick first and winner last: the element at 0-based index i has    *)
(* position i + 1 and pickNumber N - i, so the array is the reverse of the *)
(* order in which the observer saw the teams drawn.                        *)
C19_ReturnOrder ==
    pc = "done" =>
        LET N == Len(teams) IN
        /\ Len(selections) = N
        /\ \A j \in 1..N :
            /\ selections[j].position = j
            /\ selections[j].pickNumber = N - (j - 1)
        /\ onSelection =>
            /\ Len(calls) = N
            /\ \A k \in 1..N : calls[k][1].userId = selections[N - k + 1].userId

C19_Witness ==
    /\ pc = "done"
    /\ onSelection
    /\ Len(selections) = 3
    /\ selections[3].userId = 2
    /\ calls[1][1].userId = 2

---------------------------------------------------------------------------
(* C20. Caller data is never mutated: from the call on, through every step *)
(* of runNBALottery and its selectWinnerByCombinations calls and whether   *)
(* the run returns or throws, the caller's teams array keeps its length,   *)
(* order and elements, and no team object gains or changes a field;        *)
(* pickNumber and position exist only on the records of selections.        *)
C20_TeamsUntouched ==
    [][pc # "idle" => (teams' = teams /\ isArray' = isArray)]_vars

C20_Witness ==
    /\ pc = "error"
    /\ Len(teams) = 3
    /\ Len(selections) = 2
    /\ \A i \in 1..Len(teams) : DOMAIN teams[i] = {"userId", "combinations"}
    /\ \A i \in 1..Len(selections) : "pickNumber" \in DOMAIN selections[i]

---------------------------------------------------------------------------
(* Vocabulary of the generator claims *)

\* a call of one of the three generate*Combinations functions has returned
GeneratorReturned ==
    gen.op \in {"generateEqualCombinations", "generateLinearCombinations",
                "generateExponentialCombinations"}

\* a call that reads a fixed table has returned
FixedTableReturned ==
    \/ gen.op = "getDefaultCombinations"
    \/ gen.op = "getCombinationSet" /\ gen.setKey \in FixedSetKeys

RECURSIVE PlainSum(_)
PlainSum(seq) == IF seq = <<>> THEN 0 ELSE Head(seq) + PlainSum(Tail(seq))

---------------------------------------------------------------------------
(* C12. Generator sum: for every numTeams >= 1 and every non-negative      *)
(* integer total, generateEqualCombinations, generateLinearCombinations    *)
(* and generateExponentialCombinations each return exactly numTeams        *)
(* integers whose sum is exactly total.                                    *)
C12_GeneratorSum ==
    GeneratorReturned =>
        /\ Len(gen.result) = gen.numTeams
        /\ \A i \in 1..Len(gen.result) : gen.result[i] \in Int
        /\ PlainSum(gen.result) = gen.total

\* linear shares whose rounding overshoots the total, corrected at index 0
C12_Witness ==
    /\ gen.op = "generateLinearCombinations"
    /\ gen.numTeams = 4
    /\ gen.total = 5
    /\ gen.result = <<1, 2, 1, 1>>

---------------------------------------------------------------------------
(* C13. Generator non-negativity: for every numTeams >= 1 and every        *)
(* non-negative integer total, every value the equal, linear and           *)
(* exponential generators return is >= 0: the adjustment of index 0 never  *)
(* drives the worst team's weight below 0.                                 *)
C13_GeneratorNonNegative ==
    GeneratorReturned => \A i \in 1..Len(gen.result) : gen.result[i] >= 0

\* rounded shares 2, 1, 1 of total 3: index 0 is lowered by 1 and stays >= 0
C13_Witness ==
    /\ gen.op = "generateLinearCombinations"
    /\ gen.numTeams = 3
    /\ gen.total = 3
    /\ MathRound(3 * 3, 6) + MathRound(2 * 3, 6) + MathRound(1 * 3, 6) = 4
    /\ gen.result = <<1, 1, 1>>

---------------------------------------------------------------------------
(* C14. Fixed-table sum: getCombinationSet with NBA_6_TEAMS, NBA_12_TEAMS  *)
(* or NBA_14_TEAMS, and getDefaultCombinations, return weights whose sum   *)
(* is the set's total of 1000 for every requested team count, smaller      *)
(* than the table (prefix) and larger than the table (extension) included. *)
C14_FixedTableSum ==
    FixedTableReturned => PlainSum(gen.result) = TOTAL_COMBINATIONS

---------------------------------------------------------------------------
(* Vocabulary of the App claims *)

\* sequence seq holds a record of team userId with pick number pickNumber
HasPick(seq, userId, pick) ==
    \E j \in 1..Len(seq) : seq[j].userId = userId /\ seq[j].pickNumber = pick

\* the teams a lottery of the mounted App would be run for, with the
\* combinations that are set for them
AssignedTeams(a) ==
    IF a.version = "slots"
    THEN TeamsWithCombinations(a.teams, a.lotterySlots)
    ELSE LegacyTeamsWithCombinations(
             LegacyTeamsForLottery(a.combinationSet, a.teams, a.combinations),
             a.combinations)

\* the configuration handleRunLottery refuses: no team is assigned, or the
\* combinations of the assigned teams sum to 0
BlockedConfiguration(a) ==
    \/ Len(AssignedTeams(a)) = 0
    \/ totalCombinations(AssignedTeams(a)) = 0

RunLotteryErrors ==
    {LoadTeamsFirstError, NoTeamsAssignedError, ZeroCombinationsError}

---------------------------------------------------------------------------
(* C16. The sequence is computed once: in the slot-based App, for one      *)
(* lottery (from Run Lottery until its results are shown) runNBALottery is *)
(* called at most once under every interleaving of Start and Skip;         *)
(* pressing Skip never triggers a second, independent sampling.            *)
C16_ComputedOnce == app.runCalls <= 1

---------------------------------------------------------------------------
(* C17. Skip preserves the outcome: once Skip has shown the results of a   *)
(* lottery, the selections shown are exactly the sequence the call of      *)
(* runNBALottery made at Start returned, and every pick the reveal showed  *)
(* before Skip is among them with the same team and the same pickNumber.   *)
C17_SkipPreservesOutcome ==
    (app.open /\ app.skipShown /\ app.startResults # <<>>) =>
        /\ app.selections = app.startResults
        /\ \A r \in app.revealed : HasPick(app.selections, r.userId, r.pickNumber)

---------------------------------------------------------------------------
(* C18. Zero-total configurations block the run: when handleRunLottery     *)
(* runs while no team is assigned to a slot, or while the combinations of  *)
(* the assigned teams sum to 0, it sets an error message, leaves the       *)
(* animation closed and the App not running, and makes no call of          *)
(* runNBALottery.                                                          *)
C18_ZeroTotalBlocked ==
    [][((RunLottery \/ LegacyRunLottery) /\ BlockedConfiguration(app)) =>
          /\ app'.error \in RunLotteryErrors
          /\ ~app'.showAnimation
          /\ ~app'.isRunning
          /\ ~app'.animationStarted
          /\ app'.procs = app.procs
          /\ app'.runCalls = app.runCalls
          /\ app'.lottery = app.lottery]_vars

\* handleRunLottery has refused two loaded teams whose combinations were
\* both set to 0 in Custom mode
C18_Witness ==
    /\ Len(app.teams) = 2
    /\ app.combinationSet = "CUSTOM"
    /\ DOMAIN app.combinations # {}
    /\ \A i \in 1..Len(app.teams) :
          CombinationsOf(app.combinations, app.teams[i].userId) = 0
    /\ BlockedConfiguration(app)
    /\ app.error = ZeroCombinationsError
    /\ ~app.isRunning
    /\ app.procs = <<>>

---------------------------------------------------------------------------
(* Vocabulary of the pool claims *)

\* the userIds of the teams of a sequence
UserIds(seq) == { seq[i].userId : i \in 1..Len(seq) }

\* the teams of ts whose userId is not in drawn, in their order
RECURSIVE Undrawn(_, _)
Undrawn(ts, drawn) ==
    IF ts = <<>> THEN <<>>
    ELSE IF Head(ts).userId \in drawn
         THEN Undrawn(Tail(ts), drawn)
         ELSE <<Head(ts)>> \o Undrawn(Tail(ts), drawn)

---------------------------------------------------------------------------
(* C21. Pool/result partition: during a run on teams with pairwise         *)
(* distinct, non-empty userIds, the recorded selections and the remaining  *)
(* pool partition the input: after k draws the pool holds exactly the      *)
(* N - k teams not drawn (in their input order), no userId is both         *)
(* recorded and in the pool, every input userId is in one of the two, and  *)
(* the pool's total combinations is the initial total minus the            *)
(* combinations of the k drawn teams.                                      *)
C21_PoolPartition ==
    (pc # "idle" /\ isArray /\ WellFormed(teams)) =>
        /\ availableTeams = Undrawn(teams, UserIds(selections))
        /\ Len(availableTeams) = Len(teams) - Len(selections)
        /\ UserIds(availableTeams) \cap UserIds(selections) = {}
        /\ UserIds(availableTeams) \cup UserIds(selections) = UserIds(teams)
        /\ totalCombinations(availableTeams) =
               totalCombinations(teams) - totalCombinations(selections)

\* two of three teams have been drawn and recorded, the second drawn being
\* the first of the input; the third pick awaits its timer
C21_Witness ==
    /\ pc = "await"
    /\ Len(teams) = 3
    /\ WellFormed(teams)
    /\ Len(selections) = 2
    /\ selections[1].userId = 1
    /\ Len(availableTeams) = 1
    /\ totalCombinations(availableTeams) > 0

---------------------------------------------------------------------------
(* C22. Termination: every run on N >= 1 teams with pairwise distinct,     *)
(* non-empty userIds and non-negative combinations summing to more than 0  *)
(* eventually finishes, given that each pacing timer eventually fires,     *)
(* after exactly N draws, with an empty pool and every team ranked, also   *)
(* when some of the remaining teams have weight 0.                         *)
(* The code does end every such run, but with ZeroTotalError and fewer     *)
(* than N draws as soon as only zero-weight teams remain.                  *)
C22_Termination ==
    ( /\ pc = "await"
      /\ pickNumber = 1
      /\ WellFormed(teams)
      /\ totalCombinations(teams) > 0 )
    ~> ( /\ pc = "done"
         /\ Len(draws) = Len(teams)
         /\ availableTeams = <<>>
         /\ UserIds(selections) = UserIds(teams) )

---------------------------------------------------------------------------
(* C23. Internal-consistency errors are unreachable: when                  *)
(* selectWinnerByCombinations is given a pool of teams with non-empty      *)
(* userIds and non-negative combinations summing to more than 0, the       *)
(* random value lies in 1..total, the cumulative walk returns from inside  *)
(* its loop (the return of the last team after the loop is not reached),   *)
(* and the team returned has positive combinations; a run on such teams    *)
(* never raises 'Invalid team selected during lottery'.                    *)
NonEmptyUserIds(pool) == \A i \in 1..Len(pool) : Truthy(pool[i].userId)

C23_NoInternalError ==
    /\ (JustSelected /\ NonEmptyUserIds(availableTeams)
                     /\ NonNegative(availableTeams)) =>
          /\ random \in 1..totalCombinations(availableTeams)
          /\ WalkIndex(availableTeams, random, 1, 0) # 0
          /\ selected = availableTeams[WalkIndex(availableTeams, random, 1, 0)]
          /\ Comb(selected) > 0
    /\ (isArray /\ NonEmptyUserIds(teams) /\ NonNegative(teams)) =>
          error # InvalidTeamError

\* the largest random value was drawn for a pool whose last team has weight
\* 0: the walk returned the team before it
C23_Witness ==
    /\ pc = "record"
    /\ Len(availableTeams) = 3
    /\ NonEmptyUserIds(availableTeams)
    /\ NonNegative(availableTeams)
    /\ Comb(availableTeams[3]) = 0
    /\ random = totalCombinations(availableTeams)
    /\ selected = availableTeams[2]

---------------------------------------------------------------------------
(* C24. Only index 0 absorbs rounding drift: in what                       *)
(* generateLinearCombinations and generateExponentialCombinations return,  *)
(* every entry at index i >= 1 is its rounded proportional share,          *)
(* round(total * (N - i) / (N * (N + 1) / 2)) for linear and               *)
(* round(total * 2^(N - i - 1) / (2^N - 1)) for exponential, and the entry *)
(* at index 0 is its rounded share plus total minus the sum of all rounded *)
(* shares.                                                                 *)

\* the rounded share of index i (0-based) of N teams
RoundedShare(op, N, total, i) ==
    IF op = "generateLinearCombinations"
    THEN MathRound(total * (N - i), (N * (N + 1)) \div 2)
    ELSE MathRound(total * Pow2(N - i - 1), Pow2(N) - 1)

RECURSIVE SumOfShares(_, _, _, _)
SumOfShares(op, N, total, i) ==
    IF i >= N THEN 0
    ELSE RoundedShare(op, N, total, i) + SumOfShares(op, N, total, i + 1)

C24_OnlyFirstAbsorbsDrift ==
    gen.op \in {"generateLinearCombinations", "generateExponentialCombinations"} =>
        /\ Len(gen.result) = gen.numTeams
        /\ \A i \in 1..(gen.numTeams - 1) :
              gen.result[i + 1] = RoundedShare(gen.op, gen.numTeams, gen.total, i)
        /\ gen.result[1] =
              RoundedShare(gen.op, gen.numTeams, gen.total, 0)
                  + (gen.total - SumOfShares(gen.op, gen.numTeams, gen.total, 0))

\* the linear shares of 1000 among 14 teams round to a sum of 1001: index 0
\* is its share 133 lowered by 1, index 1 keeps its share 124
C24_Witness ==
    /\ gen.op = "generateLinearCombinations"
    /\ gen.numTeams = 14
    /\ gen.total = TOTAL_COMBINATIONS
    /\ SumOfShares(gen.op, 14, gen.total, 0) = gen.total + 1
    /\ gen.result[1] = 132
    /\ gen.result[2] = 124

---------------------------------------------------------------------------
(* C25. Fixed-table prefix and extension: for a fixed table of length L,   *)
(* a request of n <= L teams returns exactly the first n entries of the    *)
(* table, and a request of n > L teams returns the whole table followed by *)
(* n - L entries, each max(1, floor(0.8 * the entry before it)); every     *)
(* extended entry is >= 1 and not above the entry before it.               *)

\* the table the returned call read; <<>> when it read none
TableRead ==
    IF gen.op = "getDefaultCombinations"
    THEN DEFAULT_COMBINATIONS
    ELSE IF gen.op = "teamUtils.getDefaultCombinations"
    THEN default12
    ELSE IF gen.op = "getCombinationSet" /\ gen.setKey \in FixedSetKeys
    THEN SetCombinations(gen.setKey)
    ELSE <<>>

\* floor(0.8 * x) for an integer x >= 0
FloorOfFourFifths(x) ==
    CHOOSE k \in 0..x : 5 * k <= 4 * x /\ 4 * x < 5 * (k + 1)

C25_PrefixAndExtension ==
    TableRead # <<>> =>
        /\ Len(gen.result) = gen.numTeams
        /\ \A i \in 1..gen.numTeams :
              IF i <= Len(TableRead)
              THEN gen.result[i] = TableRead[i]
              ELSE /\ gen.result[i] =
                        (IF FloorOfFourFifths(gen.result[i - 1]) >= 1
                         THEN FloorOfFourFifths(gen.result[i - 1]) ELSE 1)
                   /\ gen.result[i] >= 1
                   /\ gen.result[i] <= gen.result[i - 1]

\* the 14-entry table extended to 20 teams: 5, then 4, 3, 2, 1, 1, 1, the
\* last one where floor(0.8 * 1) is 0
C25_Witness ==
    /\ gen.op = "getCombinationSet"
    /\ gen.setKey = "NBA_14_TEAMS"
    /\ gen.numTeams = 20
    /\ SubSeq(gen.result, 1, 14) = NBA_14_TEAMS
    /\ SubSeq(gen.result, 15, 20) = <<4, 3, 2, 1, 1, 1>>

---------------------------------------------------------------------------
(* C26. Worst-to-best pattern: every array getCombinationSet and the       *)
(* equal, linear and exponential generators return is non-increasing in    *)
(* the index, so index 0 holds the largest weight and index N - 1 the      *)
(* smallest, for every team count and total, also after the correction of  *)
(* index 0.                                                                *)
(* generateLinearCombinations(4, 5) returns 1, 2, 1, 1: the shares round   *)
(* to 2, 2, 1, 1 and the correction lowers index 0 below index 1.          *)
C26_WorstToBest ==
    (GeneratorReturned \/ gen.op = "getCombinationSet") =>
        \A i \in 1..(Len(gen.result) - 1) : gen.result[i] >= gen.result[i + 1]


---------------------------------------------------------------------------
(* C27 *)

\* the indices of the slots that hold the team; a team without a userId
\* is in none (slot.teamId is null where a slot has no team)
SlotsOf(lotterySlots, team) ==
    { index \in 1..Len(lotterySlots) :
        Truthy(team.userId) /\ lotterySlots[index].teamId = team.userId }

\* the team is in the list
InList(list, team) == \E i \in 1..Len(list) : list[i] = team

\* no team id is held by two slots, and every loaded team is in exactly one
\* slot and not in the non-lottery list, or in no slot and in that list
OnePlaceEach(a) ==
    LET nonLottery == playoffTeams(a.teams, a.lotterySlots)
    IN  /\ \A i, j \in 1..Len(a.lotterySlots) :
              (i # j /\ a.lotterySlots[i].teamId # NoTeamId)
                  => a.lotterySlots[i].teamId # a.lotterySlots[j].teamId
        /\ \A t \in 1..Len(a.teams) :
              \/ /\ Cardinality(SlotsOf(a.lotterySlots, a.teams[t])) = 1
                 /\ ~InList(nonLottery, a.teams[t])
              \/ /\ SlotsOf(a.lotterySlots, a.teams[t]) = {}
                 /\ InList(nonLottery, a.teams[t])

\* C27: in the slot-based App, after any sequence of team loads, distribution
\* changes and drag-and-drop swaps, no team id is held by two slots, every
\* loaded team is either in exactly one slot and not in the non-lottery list
\* or in no slot and in that list, and a drag-and-drop leaves the number of
\* slots as it was.
C27_EachTeamInOnePlace ==
    /\ [](app.version = "slots" => OnePlaceEach(app))
    /\ [][Len(app'.lotterySlots) = Len(app.lotterySlots) \/ ~DragEnd]_vars

\* a league of seven under the lottery-only set after drags: its one slot
\* holds the best team, which the load had put into the playoffs, and the
\* worst team, which the load had put into the slot, is a playoff team
C27_Witness ==
    /\ app.version = "slots"
    /\ app.combinationSet = "NBA_6_TEAMS"
    /\ Len(app.teams) = PLAYOFF_SPOTS + 1
    /\ Len(app.lotterySlots) = 1
    /\ app.lotterySlots[1].teamId = 1
    /\ InList(playoffTeams(app.teams, app.lotterySlots),
              app.teams[PLAYOFF_SPOTS + 1])


---------------------------------------------------------------------------
(* C28 *)

\* Skip has been requested for the run of the pending handleStartAnimation
\* call k: the dialog of its lottery has been closed, which only
\* handleSkipAnimation does, or a later lottery has been opened since
SkipRequested(a, k) ==
    /\ a.procs[k].kind = "start"
    /\ a.procs[k].lottery # a.lottery \/ ~a.showAnimation

\* call k waits inside the loop of lines 901-970
InLoop(a, k) == a.procs[k].phase \in {"preDelay", "animDelay", "import"}

\* the state after the timer or the import call k waits for
LoopStep(a, k) ==
    CASE a.procs[k].phase = "preDelay" -> PostDelay(a, k, a.procs[k].i)
      [] a.procs[k].phase = "animDelay" -> PostAnimation(a, k, a.procs[k].i)
      [] a.procs[k].phase = "import" -> LoopTop(a, k, a.procs[k].i + 1)
      [] OTHER -> a

\* C28: once Skip has been requested for a run, no step of that run's
\* animation loop changes selections or currentSelection, whether or not a
\* later lottery has been started in the meantime.
C28_NoStaleReveal ==
    [][\A k \in 1..Len(app.procs) :
          (SkipRequested(app, k) /\ InLoop(app, k) /\ app' = LoopStep(app, k))
              => /\ app'.selections = app.selections
                 /\ app'.currentSelection = app.currentSelection]_vars


---------------------------------------------------------------------------
(* C29 *)

\* C29: in Custom mode of the slot-based App, an edit of the combinations
\* field of the card of a slot's team to the integer v sets the combinations
\* of that slot to max(0, v) and leaves the combinations of every other slot
\* and the team of every slot as they were.
C29_CustomWeightEdit ==
    [][\A index \in 1..Len(app.lotterySlots), v \in 0..MaxComb :
          (/\ EditCombinations
           /\ app.lotterySlots[index].teamId # NoTeamId
           /\ app'.lotterySlots = onCombinationsChange(app.lotterySlots, index, v))
              => /\ Len(app'.lotterySlots) = Len(app.lotterySlots)
                 /\ app'.lotterySlots[index].combinations = IF v > 0 THEN v ELSE 0
                 /\ \A j \in 1..Len(app.lotterySlots) :
                       /\ j # index => app'.lotterySlots[j].combinations
                                           = app.lotterySlots[j].combinations
                       /\ app'.lotterySlots[j].teamId = app.lotterySlots[j].teamId]_vars


---------------------------------------------------------------------------
(* C30 *)

\* C30: the combinations of the slots created from the EQUAL, LINEAR or
\* EXPONENTIAL distribution are the output of the set's generator for the
\* number of teams, and their sum is the set's total of 1000, for every
\* number of teams.
C30_SlotsCarryGeneratorWeights ==
    (gen.op = "createSlots" /\ gen.setKey \in {"EQUAL", "LINEAR", "EXPONENTIAL"})
        => /\ gen.result = getCombinationSet(gen.setKey, gen.numTeams)
           /\ PlainSum(gen.result) = SetTotal(gen.setKey)

=============================================================================
